---- MODULE Spec2Model ----
(***************************************************************************)
(* Model of the multi-account session / dispatch core:                     *)
(*   AccountManager and MultiSender     (telegram_multi_sender.py)         *)
(*   TelegramSenderPro._start_send      (telegram_multi_sender_gui.py)     *)
(*                                                                         *)
(* Strings that the code inspects (phones, session file names) are         *)
(* sequences of tokens; a token is one character, except "id_" and         *)
(* "tdata_", the two literal prefixes the code builds names from.          *)
(* The external protocol client, the file system and the HTTP endpoint     *)
(* are black boxes: every outcome of a call to them is an input of the     *)
(* action that makes the call.                                             *)
(***************************************************************************)
EXTENDS Integers, Sequences, FiniteSets, TLC

VARIABLES
    accounts,   \* AccountManager.accounts: dict in insertion order, a sequence of entries
    clients,    \* AccountManager.clients: function key -> handle id
    handles,    \* every client object constructed so far, by id (its position)
    files,      \* session artifacts present on disk (session_file names)
    disk,       \* the account store file
    now,        \* the wall clock read by datetime.now()
    lastOp,     \* the last manager / sender call: its name, arguments and outcome
    opentele,   \* OPENTELE_AVAILABLE, fixed when the module is imported
    gui         \* the presentation layer and its worker dispatch

vars == <<accounts, clients, handles, files, disk, now, lastOp, opentele, gui>>

----------------------------------------------------------------------------
(* Bounds *)

MaxHandles == 2     \* client objects constructed in one run
MaxLogins == 1      \* logins with arbitrary arguments and outcomes in one run
MaxTargets == 3     \* length of a target list
MaxImport == 3      \* accounts enumerated by one import
MaxSmallImport == 1 \* accounts enumerated by an import that only fills the store
MaxFile == 2        \* entries of a store file found at start-up
MaxPhoneLen == 3    \* length of an arbitrary string given as a phone
MaxEntryHandles == 1 \* client objects constructed while spellings are compared
MaxParts == 3        \* pieces a response body is put together from
MaxQueued == 3       \* targets of a dispatch whose events are followed
MaxDispatch == 5      \* targets of one round-robin dispatch

----------------------------------------------------------------------------
(* Strings *)

IsSpace(c) == c = " "

RECURSIVE LStrip(_)
LStrip(s) == IF s # <<>> /\ IsSpace(Head(s)) THEN LStrip(Tail(s)) ELSE s

RECURSIVE RStrip(_)
RStrip(s) ==
    IF s # <<>> /\ IsSpace(s[Len(s)]) THEN RStrip(SubSeq(s, 1, Len(s) - 1)) ELSE s

Strip(s) == RStrip(LStrip(s))

StartsWith(s, c) == s # <<>> /\ Head(s) = c

RemoveChar(s, c) == SelectSeq(s, LAMBDA x : x # c)

Contains(s, tok) == \E i \in 1..Len(s) : s[i] = tok

\* (mutation of NormalizePhone: the '+' is prefixed without looking)
NormalizePhoneAlwaysPrefixes(phone) == <<"+">> \o Strip(phone)

\* _normalize_phone: strip, then prefix '+' when absent
NormalizePhone(phone) ==
    LET p == Strip(phone) IN IF StartsWith(p, "+") THEN p ELSE <<"+">> \o p

\* add_account: os.path.join(SESSION_DIR, phone.replace('+', ''))
SessionFileOf(phone) == RemoveChar(phone, "+")

\* import_from_tdata: os.path.join(SESSION_DIR, f"tdata_{acc.UserId}")
TdataSessionFile(uid) == <<"tdata_", uid>>

----------------------------------------------------------------------------
(* The account dictionary, in insertion order *)

Keys(accts) == {accts[i].key : i \in 1..Len(accts)}

HasKey(accts, k) == k \in Keys(accts)

IndexOf(accts, k) == CHOOSE i \in 1..Len(accts) : accts[i].key = k

Lookup(accts, k) == accts[IndexOf(accts, k)]

\* d[k] = entry: an existing key keeps its position, a new key goes last
Put(accts, entry) ==
    IF HasKey(accts, entry.key)
    THEN [accts EXCEPT ![IndexOf(accts, entry.key)] = entry]
    ELSE Append(accts, entry)

\* d.pop(k)
Pop(accts, k) == SelectSeq(accts, LAMBDA e : e.key # k)

\* TelegramAccount(phone, session_file, api_url) with the dataclass defaults
NewAccount(phone, session_file, api_url) ==
    [key |-> phone, phone |-> phone, session_file |-> session_file,
     api_url |-> api_url, name |-> "", username |-> "", user_id |-> 0,
     logged_in |-> FALSE, last_active |-> 0]

----------------------------------------------------------------------------
(* The store file *)

SaveOutcomes == {"ok", "fail"}

\* (mutation of SaveAccounts: the records are written last to first)
SaveAccountsReversed(d, accts, outcome) ==
    IF outcome = "ok"
    THEN [state |-> "ok", recs |-> [i \in 1..Len(accts) |-> accts[Len(accts) + 1 - i]]]
    ELSE d

\* _save_accounts: the whole dictionary overwrites the file; an I/O error is
\* printed and swallowed (modelled as open() failing: the file keeps its content)
SaveAccounts(d, accts, outcome) ==
    IF outcome = "ok" THEN [state |-> "ok", recs |-> accts] ELSE d

\* the fields of the TelegramAccount dataclass; phone and session_file have
\* no default
DataclassFields ==
    {"phone", "session_file", "api_url", "name", "username", "user_id",
     "logged_in", "last_active"}

RequiredFields == {"phone", "session_file"}

\* TelegramAccount(**info) accepts the entry: every required field is there
\* and no field is unknown (the dictionary key is not part of info)
Convertible(e) ==
    /\ RequiredFields \subseteq DOMAIN e
    /\ (DOMAIN e \ {"key"}) \subseteq DataclassFields

\* TelegramAccount(**info), stored under the key of the file
FromEntry(e) ==
    LET dflt == NewAccount(e.phone, e.session_file, "") IN
    [f \in DOMAIN dflt |-> IF f \in DOMAIN e THEN e[f] ELSE dflt[f]]

\* the for loop of _load_accounts: it ends at the first entry that raises
RECURSIVE LoadLoop(_, _, _)
LoadLoop(accts, recs, i) ==
    IF i > Len(recs) THEN accts
    ELSE IF ~Convertible(recs[i]) THEN accts
    ELSE LoadLoop(Put(accts, FromEntry(recs[i])), recs, i + 1)

\* _load_accounts: nothing is read when the file is missing or json.load
\* raises; the entries are assigned into the dictionary as it is
LoadAccounts(accts, d) ==
    IF d.state = "ok" THEN LoadLoop(accts, d.recs, 1) ELSE accts

----------------------------------------------------------------------------
(* Client objects *)

NewHandle(session_file, variant) ==
    [session |-> session_file, variant |-> variant, connected |-> FALSE,
     disconnects |-> 0]

IsConnected(hs, h) == hs[h].connected

\* the remote profile returned by get_me()
Profiles ==
    { [first |-> "Ann", last |-> "", username |-> "", id |-> "7", phone |-> <<>>],
      [first |-> "", last |-> "Bo", username |-> "bo", id |-> "8", phone |-> <<"1">>] }

\* get_me() raising instead of returning a profile
MeRaises == [first |-> "", last |-> "", username |-> "", id |-> "raise", phone |-> <<>>]

\* f"{me.first_name or ''} {me.last_name or ''}".strip()
FullName(me) ==
    IF me.first = "" THEN me.last
    ELSE IF me.last = "" THEN me.first
    ELSE me.first \o " " \o me.last

----------------------------------------------------------------------------
(* The manager's state as one value, so that a call can be composed of calls *)

Mgr ==
    [accounts |-> accounts, clients |-> clients, handles |-> handles,
     files |-> files, disk |-> disk, now |-> now]

None == 0       \* Python's None where a handle id is expected

\* self.clients[phone] = client
CachePut(cl, p, h) == [k \in DOMAIN cl \cup {p} |-> IF k = p THEN h ELSE cl[k]]

\* TelegramClient(session_file, ...) / OTelegramClient(session_file, ...):
\* the object is created and its session artifact with it
Construct(m, session_file, variant) ==
    [m EXCEPT !.handles = Append(@, NewHandle(session_file, variant)),
              !.files = @ \cup {session_file}]

SetConnected(m, h, b) == [m EXCEPT !.handles[h].connected = b]

----------------------------------------------------------------------------
(* AccountManager.add_account *)

AddAccount(m, phone, api_url, save) ==
    LET p == NormalizePhone(phone)
        accts == Put(m.accounts, NewAccount(p, SessionFileOf(p), api_url))
    IN [m EXCEPT !.accounts = accts, !.disk = SaveAccounts(m.disk, accts, save)]

----------------------------------------------------------------------------
(* AccountManager.get_account *)

\* self.accounts.get(phone): the record or None, as a sequence of at most one
GetAccount(m, phone) ==
    LET p == NormalizePhone(phone) IN
    IF HasKey(m.accounts, p) THEN <<Lookup(m.accounts, p)>> ELSE <<>>

----------------------------------------------------------------------------
(* AccountManager.get_client *)

GetClientOutcomes == [conn : {"ok", "raise"}, auth : {"yes", "no", "raise"}]

\* (mutation of CacheHit: a cached handle is reused without the is_connected() check)
CacheHitUnchecked(m, p) == p \in DOMAIN m.clients

\* the cached handle passes the is_connected() check
CacheHit(m, p) == p \in DOMAIN m.clients /\ IsConnected(m.handles, m.clients[p])

\* get_client constructs a new client (lines 320-326)
GetClientConstructs(m, phone) ==
    LET p == NormalizePhone(phone) IN ~CacheHit(m, p) /\ HasKey(m.accounts, p)

ClientVariant(avail, session_file) ==
    IF avail /\ Contains(session_file, "tdata_") THEN "otele" ELSE "std"

\* result: the manager afterwards, the value returned (None or a handle id),
\* whether the call raised instead of returning, the handle it constructed,
\* and what is_user_authorized() reported ("" when it was not called)
GetClient(m, avail, phone, x) ==
    LET p == NormalizePhone(phone) IN
    IF CacheHit(m, p)
    THEN [m |-> m, ret |-> m.clients[p], raised |-> FALSE, made |-> None, auth |-> ""]
    ELSE IF ~HasKey(m.accounts, p)
    THEN [m |-> m, ret |-> None, raised |-> FALSE, made |-> None, auth |-> ""]
    ELSE
      LET acct == Lookup(m.accounts, p)
          m1 == Construct(m, acct.session_file, ClientVariant(avail, acct.session_file))
          h == Len(m1.handles)
          m2 == SetConnected(m1, h, TRUE)
      IN IF x.conn = "raise"
         THEN [m |-> m1, ret |-> None, raised |-> TRUE, made |-> h, auth |-> ""]
         ELSE IF x.auth = "raise"
         THEN [m |-> m2, ret |-> None, raised |-> TRUE, made |-> h, auth |-> "raise"]
         ELSE IF x.auth = "yes"
         THEN [m |-> [m2 EXCEPT !.clients = CachePut(@, p, h)],
               ret |-> h, raised |-> FALSE, made |-> h, auth |-> "yes"]
         ELSE [m |-> m2, ret |-> None, raised |-> FALSE, made |-> h, auth |-> "no"]

----------------------------------------------------------------------------
(* AccountManager.close_all *)

\* client.disconnect(): counted on the handle; it raises for the handles of
\* `failing`, which then stay as they were
Disconnect(hs, h, fails) ==
    [hs EXCEPT ![h] = [@ EXCEPT !.disconnects = @ + 1,
                                !.connected = IF fails THEN @ ELSE FALSE]]

Cached(cl) == {cl[k] : k \in DOMAIN cl}

\* (mutation of DisconnectAll: the first disconnect error ends the loop)
RECURSIVE DisconnectAllStopsOnError(_, _, _)
DisconnectAllStopsOnError(hs, todo, failing) ==
    IF todo = {} THEN hs
    ELSE LET h == CHOOSE h \in todo : TRUE
         IN IF h \in failing THEN Disconnect(hs, h, TRUE)
            ELSE DisconnectAllStopsOnError(Disconnect(hs, h, FALSE), todo \ {h}, failing)

RECURSIVE DisconnectAll(_, _, _)
DisconnectAll(hs, todo, failing) ==
    IF todo = {} THEN hs
    ELSE LET h == CHOOSE h \in todo : TRUE
         IN DisconnectAll(Disconnect(hs, h, h \in failing), todo \ {h}, failing)

EmptyCache == [k \in {} |-> None]

CloseAll(m, failing) ==
    [m EXCEPT !.handles = DisconnectAll(@, Cached(m.clients), failing),
              !.clients = EmptyCache]

----------------------------------------------------------------------------
(* AccountManager.remove_account *)

RemoveOutcomes == [rm : {"ok", "raise"}, save : SaveOutcomes]

\* (mutation of RemoveAccount: the argument is looked up as given)
RemoveAccountRawKey(m, phone, x) ==
    IF ~HasKey(m.accounts, phone) THEN [m |-> m, raised |-> FALSE]
    ELSE
      LET acc == Lookup(m.accounts, phone)
          popped == [m EXCEPT !.accounts = Pop(@, phone)]
      IN IF acc.session_file \in m.files /\ x.rm = "raise"
         THEN [m |-> popped, raised |-> TRUE]
         ELSE [m |-> [popped EXCEPT !.files = @ \ {acc.session_file},
                                    !.disk = SaveAccounts(@, popped.accounts, x.save)],
               raised |-> FALSE]

\* result: the manager afterwards and whether os.remove raised out of the call
RemoveAccount(m, phone, x) ==
    LET p == NormalizePhone(phone) IN
    IF ~HasKey(m.accounts, p) THEN [m |-> m, raised |-> FALSE]
    ELSE
      LET acc == Lookup(m.accounts, p)
          popped == [m EXCEPT !.accounts = Pop(@, p)]
      IN IF acc.session_file \in m.files /\ x.rm = "raise"
         THEN [m |-> popped, raised |-> TRUE]
         ELSE [m |-> [popped EXCEPT !.files = @ \ {acc.session_file},
                                    !.disk = SaveAccounts(@, popped.accounts, x.save)],
               raised |-> FALSE]

----------------------------------------------------------------------------
(* AccountManager.login_account *)

\* "" stands for an argument that is None or empty (both falsy in the code)
Urls == {"", "u1"}
ManualCodes == {"", "m"}
Manual2fa == {"", "M"}

\* The outcome of every external call a login can make, in call order:
\*   conn     connect(): "ok", "raise"
\*   auth     is_user_authorized(): "yes", "no", "raise"
\*   me       get_me(): a profile, or MeRaises
\*   req      send_code_request(): "ok", "flood", "raise"
\*   fetch    _fetch_code_from_url: the code "f", or "" for an error
\*   prompt   input().strip() for the code: "p" or ""
\*   sign     sign_in(phone, code): "ok", "2fa", "expired", "invalid", "flood", "raise"
\*   fetch2   _fetch_2fa_from_url: the password "F", or "" for an error / no match
\*   prompt2  input().strip() for the password: "P" or ""
\*   sign2    sign_in(password=...): "ok", "flood", "raise"
\*   save1    the save of add_account;  save2  the save after a successful login
\*   detail   what the exception raised carries: e.seconds of a FloodWaitError,
\*            str(e) of any other exception
\* A call that is not reached keeps the value it has in LoginDefault.
LoginDefault ==
    [conn |-> "ok", auth |-> "yes", me |-> MeRaises, req |-> "ok", fetch |-> "f",
     prompt |-> "p", sign |-> "ok", fetch2 |-> "F", prompt2 |-> "P", sign2 |-> "ok",
     save1 |-> "ok", save2 |-> "ok", detail |-> "boom"]

\* e.seconds of a FloodWaitError
FloodSeconds == {"30", "60"}

\* the scenario has a call answered by FloodWaitError
Floods(x) == "flood" \in {x.req, x.sign, x.sign2}

\* how the success path ends: get_me() raises, or returns and the store is saved
LoginEndings ==
    {[me |-> MeRaises, save2 |-> "ok"]}
      \cup {[me |-> pr, save2 |-> sv] : pr \in Profiles, sv \in SaveOutcomes}

CodeSources ==
    {[fetch |-> "f", prompt |-> "p"], [fetch |-> "", prompt |-> "p"],
     [fetch |-> "f", prompt |-> ""]}

PasswordSources == [fetch2 : {"F", ""}, prompt2 : {"P", ""}]

LoginScenarios ==
    LET early == {[LoginDefault EXCEPT !.conn = "raise"],
                  [LoginDefault EXCEPT !.auth = "raise"]}
                  \cup {[LoginDefault EXCEPT !.auth = "no", !.req = r] :
                           r \in {"flood", "raise"}}
        already == {[LoginDefault EXCEPT !.me = e.me, !.save2 = e.save2] :
                      e \in LoginEndings}
        coded == {[LoginDefault EXCEPT !.auth = "no", !.fetch = c.fetch,
                                      !.prompt = c.prompt] : c \in CodeSources}
        signFail == {[x EXCEPT !.sign = sg] :
                       x \in coded, sg \in {"expired", "invalid", "flood", "raise"}}
        signOk == {[x EXCEPT !.me = e.me, !.save2 = e.save2] :
                     x \in coded, e \in LoginEndings}
        twoFa == {[x EXCEPT !.sign = "2fa", !.fetch2 = w.fetch2, !.prompt2 = w.prompt2] :
                    x \in coded, w \in PasswordSources}
        pwFail == {[x EXCEPT !.sign2 = sg] : x \in twoFa, sg \in {"flood", "raise"}}
        pwOk == {[x EXCEPT !.me = e.me, !.save2 = e.save2] :
                   x \in twoFa, e \in LoginEndings}
        all == early \cup already \cup signFail \cup signOk \cup pwFail \cup pwOk
        timed == {x \in all : ~Floods(x)}
                   \cup {[x EXCEPT !.detail = d] :
                           x \in {y \in all : Floods(y)}, d \in FloodSeconds}
    IN {[x EXCEPT !.save1 = sv] : x \in timed, sv \in SaveOutcomes}

\* (mutation of Refreshed: the timestamp is not updated)
RefreshedKeepsTimestamp(acct, me, t) ==
    [acct EXCEPT !.name = FullName(me), !.username = me.username,
                 !.user_id = me.id, !.logged_in = TRUE]

\* lines 190-195 / 235-240: the record refreshed from get_me()
Refreshed(acct, me, t) ==
    [acct EXCEPT !.name = FullName(me), !.username = me.username,
                 !.user_id = me.id, !.logged_in = TRUE, !.last_active = t]

\* lines 190-198 / 235-244: refresh, save, cache, return success
LoginSucceed(m, p, h, x, msg, calls) ==
    IF x.me = MeRaises
    THEN [m |-> m, ok |-> FALSE, msg |-> "failed", detail |-> x.detail, made |-> h,
          saveErr |-> FALSE, calls |-> Append(calls, <<"get_me", "">>)]
    ELSE
      LET t == m.now + 1
          accts == Put(m.accounts, Refreshed(Lookup(m.accounts, p), x.me, t))
      IN [m |-> [m EXCEPT !.now = t, !.accounts = accts,
                          !.disk = SaveAccounts(@, accts, x.save2),
                          !.clients = CachePut(@, p, h)],
          ok |-> TRUE, msg |-> msg, detail |-> "", made |-> h,
          saveErr |-> x.save2 # "ok",
          calls |-> Append(calls, <<"get_me", "">>)]

\* (mutation of LoginFailWith: a failure empties the connection cache)
LoginFailWithClearsCache(m, h, msg, detail, calls) ==
    [m |-> [m EXCEPT !.clients = EmptyCache], ok |-> FALSE, msg |-> msg,
     detail |-> detail, made |-> h, saveErr |-> FALSE, calls |-> calls]

\* lines 246-253 and the early returns: (False, msg), the message carrying
\* `detail` (the seconds to wait, or the text of the exception)
LoginFailWith(m, h, msg, detail, calls) ==
    [m |-> m, ok |-> FALSE, msg |-> msg, detail |-> detail, made |-> h,
     saveErr |-> FALSE, calls |-> calls]

LoginFail(m, h, msg, calls) == LoginFailWith(m, h, msg, "", calls)

\* (mutation of LoginSignIn: with a URL on the record the password is fetched
\* and submitted as fetched, the operator is never asked)
LoginSignInNoFallback(m, p, h, acct, code, manual_2fa, x, calls) ==
    LET c1 == Append(calls, <<"sign_in", code>>) IN
    CASE x.sign = "ok" -> LoginSucceed(m, p, h, x, "ok", c1)
      [] x.sign = "expired" -> LoginFail(m, h, "expired", c1)
      [] x.sign = "invalid" -> LoginFail(m, h, "invalid", c1)
      [] x.sign = "flood" -> LoginFailWith(m, h, "flood", x.detail, c1)
      [] x.sign = "raise" -> LoginFailWith(m, h, "failed", x.detail, c1)
      [] x.sign = "2fa" ->
           LET fetched == manual_2fa = "" /\ acct.api_url # ""
               prompted == manual_2fa = "" /\ acct.api_url = ""
               password == IF manual_2fa # "" THEN manual_2fa
                           ELSE IF prompted THEN x.prompt2 ELSE x.fetch2
               c2 == (IF fetched THEN Append(c1, <<"fetch_2fa", "">>) ELSE c1)
               c3 == (IF prompted THEN Append(c2, <<"prompt_2fa", "">>) ELSE c2)
               c4 == Append(c3, <<"sign_in_password", password>>)
           IN CASE x.sign2 = "ok" -> LoginSucceed(m, p, h, x, "ok", c4)
                [] x.sign2 = "flood" -> LoginFailWith(m, h, "flood", x.detail, c4)
                [] x.sign2 = "raise" -> LoginFailWith(m, h, "failed", x.detail, c4)

\* lines 218-232: submit the code, then the password when one is required
LoginSignIn(m, p, h, acct, code, manual_2fa, x, calls) ==
    LET c1 == Append(calls, <<"sign_in", code>>) IN
    CASE x.sign = "ok" -> LoginSucceed(m, p, h, x, "ok", c1)
      [] x.sign = "expired" -> LoginFail(m, h, "expired", c1)
      [] x.sign = "invalid" -> LoginFail(m, h, "invalid", c1)
      [] x.sign = "flood" -> LoginFailWith(m, h, "flood", x.detail, c1)
      [] x.sign = "raise" -> LoginFailWith(m, h, "failed", x.detail, c1)
      [] x.sign = "2fa" ->
           LET fetched == manual_2fa = "" /\ acct.api_url # ""
               prompted == manual_2fa = "" /\ (acct.api_url = "" \/ x.fetch2 = "")
               password == IF manual_2fa # "" THEN manual_2fa
                           ELSE IF prompted THEN x.prompt2 ELSE x.fetch2
               c2 == (IF fetched THEN Append(c1, <<"fetch_2fa", "">>) ELSE c1)
               c3 == (IF prompted THEN Append(c2, <<"prompt_2fa", "">>) ELSE c2)
               c4 == Append(c3, <<"sign_in_password", password>>)
           IN CASE x.sign2 = "ok" -> LoginSucceed(m, p, h, x, "ok", c4)
                [] x.sign2 = "flood" -> LoginFailWith(m, h, "flood", x.detail, c4)
                [] x.sign2 = "raise" -> LoginFailWith(m, h, "failed", x.detail, c4)

\* (mutation of LoginWithCode: the URL of the record is tried before the
\* manual code)
LoginWithCodeFetchFirst(m, p, h, acct, manual_code, manual_2fa, x, calls) ==
    LET c1 == Append(calls, <<"send_code_request", "">>) IN
    CASE x.req = "flood" -> LoginFailWith(m, h, "flood", x.detail, c1)
      [] x.req = "raise" -> LoginFailWith(m, h, "failed", x.detail, c1)
      [] x.req = "ok" ->
           IF acct.api_url # ""
           THEN LET c2 == Append(c1, <<"fetch_code", "">>) IN
                IF x.fetch = "" THEN LoginFail(m, h, "fetch_failed", c2)
                ELSE LoginSignIn(m, p, h, acct, x.fetch, manual_2fa, x, c2)
           ELSE IF manual_code # ""
           THEN LoginSignIn(m, p, h, acct, manual_code, manual_2fa, x, c1)
           ELSE LET c2 == Append(c1, <<"prompt_code", "">>) IN
                IF x.prompt = "" THEN LoginFail(m, h, "no_code", c2)
                ELSE LoginSignIn(m, p, h, acct, x.prompt, manual_2fa, x, c2)

\* (mutation of LoginWithCode: a rate-limited code request is reported with
\* the generic message)
LoginWithCodeGenericFlood(m, p, h, acct, manual_code, manual_2fa, x, calls) ==
    LET c1 == Append(calls, <<"send_code_request", "">>) IN
    CASE x.req = "flood" -> LoginFailWith(m, h, "failed", x.detail, c1)
      [] x.req = "raise" -> LoginFailWith(m, h, "failed", x.detail, c1)
      [] x.req = "ok" ->
           IF manual_code # ""
           THEN LoginSignIn(m, p, h, acct, manual_code, manual_2fa, x, c1)
           ELSE IF acct.api_url # ""
           THEN LET c2 == Append(c1, <<"fetch_code", "">>) IN
                IF x.fetch = "" THEN LoginFail(m, h, "fetch_failed", c2)
                ELSE LoginSignIn(m, p, h, acct, x.fetch, manual_2fa, x, c2)
           ELSE LET c2 == Append(c1, <<"prompt_code", "">>) IN
                IF x.prompt = "" THEN LoginFail(m, h, "no_code", c2)
                ELSE LoginSignIn(m, p, h, acct, x.prompt, manual_2fa, x, c2)

\* lines 201-216: request the code and resolve it
LoginWithCode(m, p, h, acct, manual_code, manual_2fa, x, calls) ==
    LET c1 == Append(calls, <<"send_code_request", "">>) IN
    CASE x.req = "flood" -> LoginFailWith(m, h, "flood", x.detail, c1)
      [] x.req = "raise" -> LoginFailWith(m, h, "failed", x.detail, c1)
      [] x.req = "ok" ->
           IF manual_code # ""
           THEN LoginSignIn(m, p, h, acct, manual_code, manual_2fa, x, c1)
           ELSE IF acct.api_url # ""
           THEN LET c2 == Append(c1, <<"fetch_code", "">>) IN
                IF x.fetch = "" THEN LoginFail(m, h, "fetch_failed", c2)
                ELSE LoginSignIn(m, p, h, acct, x.fetch, manual_2fa, x, c2)
           ELSE LET c2 == Append(c1, <<"prompt_code", "">>) IN
                IF x.prompt = "" THEN LoginFail(m, h, "no_code", c2)
                ELSE LoginSignIn(m, p, h, acct, x.prompt, manual_2fa, x, c2)

\* (mutation of LoginAccount: the authorization check is not consulted, a code
\* is requested in every login)
LoginAccountAlwaysRequests(m, phone, api_url, manual_code, manual_2fa, x) ==
    LET p == NormalizePhone(phone)
        m0 == IF HasKey(m.accounts, p) THEN m ELSE AddAccount(m, p, api_url, x.save1)
        a0 == Lookup(m0.accounts, p)
        acct == IF api_url # "" THEN [a0 EXCEPT !.api_url = api_url] ELSE a0
        m1 == Construct([m0 EXCEPT !.accounts = Put(@, acct)], acct.session_file, "std")
        h == Len(m1.handles)
        m2 == SetConnected(m1, h, TRUE)
        c1 == <<<<"connect", "">>>>
        c2 == Append(c1, <<"is_user_authorized", "">>)
    IN CASE x.conn = "raise" -> LoginFailWith(m1, h, "failed", x.detail, c1)
         [] x.conn = "ok" /\ x.auth = "raise" ->
              LoginFailWith(m2, h, "failed", x.detail, c2)
         [] OTHER -> LoginWithCode(m2, p, h, acct, manual_code, manual_2fa, x, c2)

\* result: the manager afterwards, (ok, msg) as returned, the handle
\* constructed, whether the save of the success path failed, and the
\* external calls made, in order
LoginAccount(m, phone, api_url, manual_code, manual_2fa, x) ==
    LET p == NormalizePhone(phone)
        m0 == IF HasKey(m.accounts, p) THEN m ELSE AddAccount(m, p, api_url, x.save1)
        a0 == Lookup(m0.accounts, p)
        acct == IF api_url # "" THEN [a0 EXCEPT !.api_url = api_url] ELSE a0
        m1 == Construct([m0 EXCEPT !.accounts = Put(@, acct)], acct.session_file, "std")
        h == Len(m1.handles)
        m2 == SetConnected(m1, h, TRUE)
        c1 == <<<<"connect", "">>>>
        c2 == Append(c1, <<"is_user_authorized", "">>)
    IN CASE x.conn = "raise" -> LoginFailWith(m1, h, "failed", x.detail, c1)
         [] x.conn = "ok" /\ x.auth = "raise" ->
              LoginFailWith(m2, h, "failed", x.detail, c2)
         [] x.conn = "ok" /\ x.auth = "yes" -> LoginSucceed(m2, p, h, x, "already", c2)
         [] x.conn = "ok" /\ x.auth = "no" ->
              LoginWithCode(m2, p, h, acct, manual_code, manual_2fa, x, c2)

----------------------------------------------------------------------------
(* AccountManager._fetch_code_from_url: the extraction from the body *)

\* a body is a sequence of tokens: one character each, except the keywords of
\* the first pattern, which are one token each: "code" (matched in any case,
\* re.IGNORECASE) and "yzm", the three-character Chinese word for it
CodeKeywords == {"code", "yzm"}

IsDigit(c) == c \in {"0", "1", "2", "3", "4", "5", "6", "7", "8", "9"}

\* [:\s]
IsColonOrSpace(c) == c = ":" \/ IsSpace(c)

\* \d{5,6} matches at position j
DigitsAt(text, j) == j + 4 <= Len(text) /\ \A k \in j..(j + 4) : IsDigit(text[k])

\* group(1) of \d{5,6} matched at j: greedy, six digits when there are six
DigitsGroup(text, j) ==
    IF j + 5 <= Len(text) /\ IsDigit(text[j + 5])
    THEN SubSeq(text, j, j + 5) ELSE SubSeq(text, j, j + 4)

\* [:\s]* from position j on: the position after the longest such stretch
RECURSIVE SkipColonOrSpace(_, _)
SkipColonOrSpace(text, j) ==
    IF j <= Len(text) /\ IsColonOrSpace(text[j]) THEN SkipColonOrSpace(text, j + 1) ELSE j

\* (?:code|yzm|Code)[:\s]*(\d{5,6}) matches at position i
LabeledAt(text, i) ==
    text[i] \in CodeKeywords /\ DigitsAt(text, SkipColonOrSpace(text, i + 1))

Smallest(S) == CHOOSE i \in S : \A j \in S : i <= j

\* lines 267-279: re.search of each pattern in turn, the leftmost match of the
\* first pattern that matches; (None, not-found message) when none does
ExtractCode(text) ==
    LET labeled == {i \in 1..Len(text) : LabeledAt(text, i)}
        bare == {j \in 1..Len(text) : DigitsAt(text, j)}
    IN IF labeled # {}
       THEN [found |-> TRUE,
             code |-> DigitsGroup(text, SkipColonOrSpace(text, Smallest(labeled) + 1))]
       ELSE IF bare # {}
       THEN [found |-> TRUE, code |-> DigitsGroup(text, Smallest(bare))]
       ELSE [found |-> FALSE, code |-> <<>>]

----------------------------------------------------------------------------
(* AccountManager.import_from_tdata *)

Digits == <<"1", "2", "3", "4", "5", "6", "7", "8", "9">>

\* what the conversion of one enumerated account runs into:
\*   "phone"     authorized, get_me() has a phone
\*   "nophone"   authorized, get_me() has no phone
\*   "unauth"    connected, not authorized
\*   "conv"      OTelegramClient.FromTDesktop raises
\*   "conn"      connect() raises
\*   "disc"      authorized, then disconnect() raises
ImportKinds == {"phone", "nophone", "unauth", "conv", "conn", "disc"}

\* the i-th enumerated account: acc.UserId, and the profile get_me() returns
ExtUid(i) == Digits[i]

ExtMe(i, kind) ==
    [first |-> "Imp", last |-> "", username |-> "", id |-> ExtUid(i),
     phone |-> IF kind = "nophone" THEN <<>> ELSE <<Digits[i]>>]

\* line 394: phone = f"+{me.phone}" if me.phone else f"id_{me.id}"
ImportedPhone(me) == IF me.phone # <<>> THEN <<"+">> \o me.phone ELSE <<"id_", me.id>>

\* (mutation of ImportedAccount: the record is not marked logged in)
ImportedAccountUnmarked(me, session_file, t) ==
    [key |-> ImportedPhone(me), phone |-> ImportedPhone(me),
     session_file |-> session_file, api_url |-> "", name |-> FullName(me),
     username |-> me.username, user_id |-> me.id, logged_in |-> FALSE,
     last_active |-> t]

\* lines 397-405
ImportedAccount(me, session_file, t) ==
    [key |-> ImportedPhone(me), phone |-> ImportedPhone(me),
     session_file |-> session_file, api_url |-> "", name |-> FullName(me),
     username |-> me.username, user_id |-> me.id, logged_in |-> TRUE,
     last_active |-> t]

\* (mutation of ImportOne: the unauthorized client is not disconnected)
ImportOneKeepsUnauthorized(m, i, kind) ==
    LET sf == TdataSessionFile(ExtUid(i))
        m1 == Construct(m, sf, "otele")
        h == Len(m1.handles)
        m2 == SetConnected(m1, h, TRUE)
        me == ExtMe(i, kind)
        t == m.now + 1
        stored == [m2 EXCEPT !.now = t,
                             !.accounts = Put(@, ImportedAccount(me, sf, t))]
    IN CASE kind = "conv" -> [m |-> m, out |-> <<FALSE, "error", i>>]
         [] kind = "conn" ->
              [m |-> [m1 EXCEPT !.handles = Disconnect(@, h, FALSE)],
               out |-> <<FALSE, "error", i>>]
         [] kind = "unauth" -> [m |-> m2, out |-> <<FALSE, "unauthorized", ExtUid(i)>>]
         [] kind \in {"phone", "nophone"} ->
              [m |-> [stored EXCEPT !.handles = Disconnect(@, h, FALSE)],
               out |-> <<TRUE, "imported", ImportedPhone(me)>>]
         [] kind = "disc" ->
              [m |-> [stored EXCEPT
                        !.handles = Disconnect(Disconnect(@, h, TRUE), h, TRUE)],
               out |-> <<FALSE, "error", i>>]

\* lines 375-425, one iteration: the manager afterwards and the outcome
\* appended, <<success, message, the account the message names>>
ImportOne(m, i, kind) ==
    LET sf == TdataSessionFile(ExtUid(i))
        m1 == Construct(m, sf, "otele")
        h == Len(m1.handles)
        m2 == SetConnected(m1, h, TRUE)
        me == ExtMe(i, kind)
        t == m.now + 1
        stored == [m2 EXCEPT !.now = t,
                             !.accounts = Put(@, ImportedAccount(me, sf, t))]
    IN CASE kind = "conv" -> [m |-> m, out |-> <<FALSE, "error", i>>]
         [] kind = "conn" ->
              [m |-> [m1 EXCEPT !.handles = Disconnect(@, h, FALSE)],
               out |-> <<FALSE, "error", i>>]
         [] kind = "unauth" ->
              [m |-> [m2 EXCEPT !.handles = Disconnect(@, h, FALSE)],
               out |-> <<FALSE, "unauthorized", ExtUid(i)>>]
         [] kind \in {"phone", "nophone"} ->
              [m |-> [stored EXCEPT !.handles = Disconnect(@, h, FALSE)],
               out |-> <<TRUE, "imported", ImportedPhone(me)>>]
         [] kind = "disc" ->
              \* line 409 raises; the handler at 419-425 disconnects again
              [m |-> [stored EXCEPT
                        !.handles = Disconnect(Disconnect(@, h, TRUE), h, TRUE)],
               out |-> <<FALSE, "error", i>>]

\* (mutation of ImportLoop: no per-account handler, the first exception ends
\* the loop in the outer handler)
RECURSIVE ImportLoopAbortsOnError(_, _, _, _)
ImportLoopAbortsOnError(m, kinds, i, results) ==
    IF i > Len(kinds) THEN [m |-> m, results |-> results]
    ELSE LET r == ImportOne(m, i, kinds[i])
         IN IF kinds[i] \in {"conv", "conn", "disc"}
            THEN [m |-> r.m, results |-> Append(results, <<FALSE, "load_failed", 0>>)]
            ELSE ImportLoopAbortsOnError(r.m, kinds, i + 1, Append(results, r.out))

\* lines 374-428: the loop over td.accounts, from the i-th account on
RECURSIVE ImportLoop(_, _, _, _)
ImportLoop(m, kinds, i, results) ==
    IF i > Len(kinds) THEN [m |-> m, results |-> results]
    ELSE LET r == ImportOne(m, i, kinds[i])
         IN ImportLoop(r.m, kinds, i + 1, Append(results, r.out))

\* the conversions that construct a client
ImportConstructs(kinds) == Len(SelectSeq(kinds, LAMBDA k : k # "conv"))

\* gate: "ok", or "nopath" (the resolved path does not exist), or "load"
\* (TDesktop(path) raises)
ImportGates == {"ok", "nopath", "load"}

\* (mutation of ImportFromTdata: the store is saved on every path)
ImportFromTdataAlwaysSaves(m, avail, gate, kinds, save) ==
    LET saved == [m EXCEPT !.disk = SaveAccounts(@, m.accounts, save)] IN
    IF ~avail THEN [m |-> saved, results |-> << <<FALSE, "unavailable", 0>> >>]
    ELSE IF gate = "nopath" THEN [m |-> saved, results |-> << <<FALSE, "nopath", 0>> >>]
    ELSE IF gate = "load" THEN [m |-> saved, results |-> << <<FALSE, "load_failed", 0>> >>]
    ELSE LET r == ImportLoop(m, kinds, 1, <<>>)
         IN [m |-> [r.m EXCEPT !.disk = SaveAccounts(@, r.m.accounts, save)],
             results |-> r.results]

ImportFromTdata(m, avail, gate, kinds, save) ==
    IF ~avail THEN [m |-> m, results |-> << <<FALSE, "unavailable", 0>> >>]
    ELSE IF gate = "nopath" THEN [m |-> m, results |-> << <<FALSE, "nopath", 0>> >>]
    ELSE IF gate = "load" THEN [m |-> m, results |-> << <<FALSE, "load_failed", 0>> >>]
    ELSE LET r == ImportLoop(m, kinds, 1, <<>>)
         IN [m |-> [r.m EXCEPT !.disk = SaveAccounts(@, r.m.accounts, save)],
             results |-> r.results]

----------------------------------------------------------------------------
(* import_tdata: the programmatic import *)

\* lines 705-711: {'phone', 'name', 'username', 'user_id'} of a record
Summary(a) ==
    [phone |-> a.phone, name |-> a.name, username |-> a.username, user_id |-> a.user_id]

\* import_tdata(path): a manager of its own is constructed over the store
\* file, the import runs on it, the records marked logged in are summarized
\* and the manager is closed. result: that manager at the end, the outcomes
\* of the import, and the list returned
ImportTdata(m, avail, gate, kinds, save) ==
    LET own == [m EXCEPT !.accounts = LoadAccounts(<<>>, m.disk), !.clients = EmptyCache]
        r == ImportFromTdata(own, avail, gate, kinds, save)
        logged == SelectSeq(r.m.accounts, LAMBDA a : a.logged_in)
    IN [m |-> CloseAll(r.m, {}), results |-> r.results,
        returned |-> [i \in 1..Len(logged) |-> Summary(logged[i])]]

----------------------------------------------------------------------------
(* MultiSender *)

Targets == {"t1", "t2"}

\* target lists are the first n of these
AllTargets == <<"t1", "t2", "t3", "t4", "t5", "t6">>

SendOutcomes == {"ok", "raise", "drop"}

\* client.send_message: "drop" is a send that fails because the connection
\* is lost; a handle that is not connected cannot send
SendEffect(m, h, out) ==
    IF ~IsConnected(m.handles, h) THEN "raise" ELSE out

AfterSend(m, h, out) ==
    IF SendEffect(m, h, out) = "drop" THEN SetConnected(m, h, FALSE) ELSE m

\* send_from_account. result: the manager afterwards, whether the call
\* raised, (ok, msg) as returned, and the sends issued as <<handle, target>>
SendFromAccount(m, avail, phone, target, gc, out) ==
    LET g == GetClient(m, avail, phone, gc) IN
    IF g.raised
    THEN [m |-> g.m, raised |-> TRUE, ok |-> FALSE, msg |-> "", sends |-> <<>>]
    ELSE IF g.ret = None
    THEN [m |-> g.m, raised |-> FALSE, ok |-> FALSE, msg |-> "not_logged_in",
          sends |-> <<>>]
    ELSE [m |-> AfterSend(g.m, g.ret, out), raised |-> FALSE,
          ok |-> SendEffect(g.m, g.ret, out) = "ok",
          msg |-> IF SendEffect(g.m, g.ret, out) = "ok" THEN "sent" ELSE "send_failed",
          sends |-> << <<g.ret, target>> >>]

\* lines 460-468: the loop of send_from_all over the records from the i-th on;
\* xs[i] holds the outcomes of the external calls made for the i-th record,
\* `calls` the phones send_from_account was called with, `results` the list
\* being built (lost when the primitive raises)
RECURSIVE SendFromAllLoop(_, _, _, _, _, _, _)
SendFromAllLoop(m, avail, target, xs, i, calls, results) ==
    IF i > Len(m.accounts)
    THEN [m |-> m, raised |-> FALSE, calls |-> calls, results |-> results]
    ELSE IF ~m.accounts[i].logged_in
    THEN SendFromAllLoop(m, avail, target, xs, i + 1, calls, results)
    ELSE LET phone == m.accounts[i].key
             r == SendFromAccount(m, avail, phone, target, xs[i].gc, xs[i].out)
         IN IF r.raised
            THEN [m |-> r.m, raised |-> TRUE, calls |-> Append(calls, phone),
                  results |-> <<>>]
            ELSE SendFromAllLoop(r.m, avail, target, xs, i + 1, Append(calls, phone),
                                 Append(results, <<phone, r.ok, r.msg>>))

\* send_from_all
SendFromAll(m, avail, target, xs) == SendFromAllLoop(m, avail, target, xs, 1, <<>>, <<>>)

\* (mutation of FanOutLoop: no handler around send_message, the first failed
\* send ends the loop)
RECURSIVE FanOutLoopStopsOnFailure(_, _, _, _, _, _, _)
FanOutLoopStopsOnFailure(m, h, targets, outs, i, log, results) ==
    IF i > Len(targets) THEN [m |-> m, log |-> log, results |-> results]
    ELSE IF SendEffect(m, h, outs[i]) # "ok"
    THEN [m |-> AfterSend(m, h, outs[i]), log |-> Append(log, <<h, targets[i]>>),
          results |-> Append(results, <<targets[i], FALSE>>)]
    ELSE FanOutLoopStopsOnFailure(m, h, targets, outs, i + 1,
                                  Append(log, <<h, targets[i]>>),
                                  Append(results, <<targets[i], TRUE>>))

\* lines 480-489: the loop of send_to_multiple over targets[i..]; `log` is
\* every send_message call issued, `results` the list being built
RECURSIVE FanOutLoop(_, _, _, _, _, _, _)
FanOutLoop(m, h, targets, outs, i, log, results) ==
    IF i > Len(targets) THEN [m |-> m, log |-> log, results |-> results]
    ELSE FanOutLoop(AfterSend(m, h, outs[i]), h, targets, outs, i + 1,
                    Append(log, <<h, targets[i]>>),
                    Append(results, <<targets[i], SendEffect(m, h, outs[i]) = "ok">>))

\* send_to_multiple. result: the manager afterwards, whether the call raised,
\* the handle get_client returned, the list returned, and the sends issued
SendToMultiple(m, avail, phone, targets, gc, outs) ==
    LET g == GetClient(m, avail, phone, gc) IN
    IF g.raised
    THEN [m |-> g.m, raised |-> TRUE, client |-> None, results |-> <<>>, sends |-> <<>>]
    ELSE IF g.ret = None
    THEN [m |-> g.m, raised |-> FALSE, client |-> None, results |-> <<>>, sends |-> <<>>]
    ELSE LET r == FanOutLoop(g.m, g.ret, targets, outs, 1, <<>>, <<>>)
         IN [m |-> r.m, raised |-> FALSE, client |-> g.ret, results |-> r.results,
             sends |-> r.log]

----------------------------------------------------------------------------
(* TelegramSenderPro: the round-robin dispatch of the window *)

\* the targets as parsed from the text box
DispatchLists == {SubSeq(AllTargets, 1, n) : n \in 1..MaxDispatch}

\* the target lists of the dispatches whose events are followed
QueueLists == {SubSeq(AllTargets, 1, n) : n \in 1..MaxQueued}

\* the orders in which list(set) can enumerate the set
Orders(S) ==
    {o \in [1..Cardinality(S) -> S] : \A a, b \in DOMAIN o : o[a] = o[b] => a = b}

\* the window: its selection, its two buttons, the cancel flag, and the
\* worker's coroutine do_send (pc, its locals selected / targets / voice_path /
\* i / count). sendLog lists the sends the coroutine issued as <<phone,
\* target>>; stopAt is the count of completed sends when the flag was cleared
\* (None before that)
GuiIdle ==
    [pc |-> "idle", selected_accounts |-> {}, send_btn |-> TRUE, stop_btn |-> FALSE,
     sending |-> FALSE, selected |-> <<>>, targets |-> <<>>, voice |-> FALSE,
     i |-> 0, count |-> 0, sendLog |-> <<>>, stopAt |-> 0 - 1]

NotStopped == 0 - 1

\* _on_account_select
OnAccountSelect(g, phone, on) ==
    [g EXCEPT !.selected_accounts = IF on THEN @ \cup {phone} ELSE @ \ {phone}]

\* (mutation of StartSend: the send button is left enabled)
StartSendKeepsButton(g, order, targets, voice) ==
    [g EXCEPT !.stop_btn = TRUE, !.sending = TRUE,
              !.selected = order, !.targets = targets, !.voice = voice,
              !.i = 0, !.count = 0, !.sendLog = <<>>, !.stopAt = NotStopped,
              !.pc = "check"]

\* _start_send past its checks: the buttons, the flag, the coroutine's locals
StartSend(g, order, targets, voice) ==
    [g EXCEPT !.send_btn = FALSE, !.stop_btn = TRUE, !.sending = TRUE,
              !.selected = order, !.targets = targets, !.voice = voice,
              !.i = 0, !.count = 0, !.sendLog = <<>>, !.stopAt = NotStopped,
              !.pc = "check"]

\* (mutation of DoSendCheck: the flag is not consulted)
DoSendCheckIgnoresFlag(g) ==
    IF g.i >= Len(g.targets) THEN [g EXCEPT !.pc = "done"]
    ELSE [g EXCEPT !.pc = "send"]

\* the head of the loop of do_send: the list is exhausted, or the flag is
\* found cleared, or the iteration goes on to send
DoSendCheck(g) ==
    IF g.i >= Len(g.targets) THEN [g EXCEPT !.pc = "done"]
    ELSE IF ~g.sending THEN [g EXCEPT !.pc = "done"]
    ELSE [g EXCEPT !.pc = "send"]

\* (mutation of DoSendPhone: the index is clamped instead of wrapped)
DoSendPhoneClamped(selected, i) ==
    selected[IF i + 1 > Len(selected) THEN Len(selected) ELSE i + 1]

\* phone = selected[i % len(selected)], i counted from 0
DoSendPhone(selected, i) == selected[(i % Len(selected)) + 1]

\* _send_voice_msg: get_client, get_entity and send_file inside one handler
SendVoiceMsg(m, avail, phone, target, gc, out) ==
    LET g == GetClient(m, avail, phone, gc) IN
    IF g.raised
    THEN [m |-> g.m, raised |-> FALSE, ok |-> FALSE, msg |-> "error", sends |-> <<>>]
    ELSE IF g.ret = None
    THEN [m |-> g.m, raised |-> FALSE, ok |-> FALSE, msg |-> "no_client",
          sends |-> <<>>]
    ELSE [m |-> AfterSend(g.m, g.ret, out), raised |-> FALSE,
          ok |-> SendEffect(g.m, g.ret, out) = "ok",
          msg |-> IF SendEffect(g.m, g.ret, out) = "ok" THEN "" ELSE "error",
          sends |-> << <<g.ret, target>> >>]

\* the body of the loop of do_send after the send returned or raised: a send
\* that raises ends the coroutine, and on_complete is never called
DoSendAfter(g, phone, target, raised) ==
    IF raised
    THEN [g EXCEPT !.sendLog = Append(@, <<phone, target>>), !.pc = "dead"]
    ELSE [g EXCEPT !.sendLog = Append(@, <<phone, target>>),
                   !.count = @ + 1, !.i = @ + 1,
                   !.pc = IF g.count + 1 < Len(g.targets) THEN "sleep" ELSE "check"]

\* _stop_send
StopSend(g) ==
    [g EXCEPT !.sending = FALSE,
              !.stopAt = IF g.sending /\ g.stopAt = NotStopped THEN g.count ELSE @]

\* _on_send_complete
OnSendComplete(g) ==
    [g EXCEPT !.send_btn = TRUE, !.stop_btn = FALSE, !.pc = "idle"]

----------------------------------------------------------------------------
(* TelegramSenderPro._on_close and the worker's event loop *)

\* the window and the loop of AsyncHelper while the window closes: ready is
\* the loop's queue of callbacks ("submit" is the callback of
\* run_coroutine_threadsafe that creates the task of cleanup(), "step" a step
\* of that task, "stop" loop.stop), stopping the flag loop.stop sets, running
\* whether run_forever has not returned. task is the position of cleanup():
\* todo the handles close_all has yet to reach, pending the handle whose
\* disconnect() it awaits, cached the cache when the window was closed
CloseIdle ==
    [win |-> "open", running |-> TRUE, stopping |-> FALSE, ready |-> <<>>,
     task |-> "none", todo |-> {}, pending |-> None, cached |-> {}]

\* client.disconnect() called, not yet returned
DisconnectInvoked(hs, h) == [hs EXCEPT ![h].disconnects = @ + 1]

\* client.disconnect() returning (or raising) after it was awaited
DisconnectReturned(hs, h, fails) ==
    [hs EXCEPT ![h].connected = IF fails THEN @ ELSE FALSE]

\* the loop of close_all from the handles of todo on, up to the first
\* disconnect() that suspends (the handles of sync return without suspending)
RECURSIVE CleanupRun(_, _, _, _)
CleanupRun(hs, todo, sync, failing) ==
    IF todo = {} THEN [hs |-> hs, todo |-> {}, pending |-> None]
    ELSE LET h == CHOOSE h \in todo : TRUE
         IN IF h \in sync
            THEN CleanupRun(Disconnect(hs, h, h \in failing), todo \ {h}, sync, failing)
            ELSE [hs |-> DisconnectInvoked(hs, h), todo |-> todo \ {h}, pending |-> h]

\* one step of the task of cleanup(): it starts close_all or resumes it after
\* the awaited disconnect, and runs to the next suspension or to the end,
\* where the cache is cleared
TaskStep(m, g, sync, failing) ==
    LET hs0 == IF g.pending # None
               THEN DisconnectReturned(m.handles, g.pending, g.pending \in failing)
               ELSE m.handles
        todo0 == IF g.task = "queued" THEN Cached(m.clients) ELSE g.todo
        r == CleanupRun(hs0, todo0, sync, failing)
    IN IF r.pending = None
       THEN [m |-> [m EXCEPT !.handles = r.hs, !.clients = EmptyCache],
             g |-> [g EXCEPT !.task = "done", !.todo = {}, !.pending = None]]
       ELSE [m |-> [m EXCEPT !.handles = r.hs],
             g |-> [g EXCEPT !.task = "waiting", !.todo = r.todo,
                             !.pending = r.pending]]

\* one callback of the loop's queue
RunHandle(m, g, handle, sync, failing) ==
    IF handle = "submit"
    THEN [m |-> m, g |-> [g EXCEPT !.task = "queued", !.ready = Append(@, "step")]]
    ELSE IF handle = "stop"
    THEN [m |-> m, g |-> [g EXCEPT !.stopping = TRUE]]
    ELSE TaskStep(m, g, sync, failing)

RECURSIVE RunHandles(_, _, _, _, _)
RunHandles(m, g, todo, sync, failing) ==
    IF todo = <<>> THEN [m |-> m, g |-> g]
    ELSE LET r == RunHandle(m, g, Head(todo), sync, failing)
         IN RunHandles(r.m, r.g, Tail(todo), sync, failing)

\* one iteration of run_forever: the callbacks that were ready when it began
\* run in order, those they schedule wait for the next iteration, and the
\* loop ends after the iteration in which loop.stop ran
RunOnce(m, g, ready, sync, failing) ==
    LET r == RunHandles(m, [g EXCEPT !.ready = <<>>], ready, sync, failing)
    IN [m |-> r.m, g |-> [r.g EXCEPT !.running = ~r.g.stopping]]

\* _on_close up to run_coroutine_threadsafe(cleanup(), loop)
OnCloseSubmit(g, cl) ==
    [g EXCEPT !.win = "closing", !.ready = Append(@, "submit"), !.cached = Cached(cl)]

\* _on_close from call_soon_threadsafe(loop.stop) on, destroy() included
OnCloseStop(g) ==
    [g EXCEPT !.win = "destroyed", !.ready = Append(@, "stop")]

----------------------------------------------------------------------------
(* TelegramSenderPro.task_queue during a dispatch *)

\* the window with its task queue: queue holds the events put and not yet
\* taken, <<"send_progress", count>> and <<"send_complete", len(results)>>;
\* seen lists the events _check_queue has handed to the window since the
\* dispatch started
QueueIdle ==
    [f \in DOMAIN GuiIdle \cup {"queue", "seen"} |->
       IF f \in {"queue", "seen"} THEN <<>> ELSE GuiIdle[f]]

\* line 1174, reached when the send returned: count was incremented before
PutProgress(g, raised) ==
    IF raised THEN g
    ELSE [g EXCEPT !.queue = Append(@, <<"send_progress", g.count>>)]

\* lines 1179-1182: the coroutine returns its results and on_complete puts
\* them in the queue
PutComplete(g) ==
    IF g.pc = "done"
    THEN [g EXCEPT !.queue = Append(@, <<"send_complete", g.count>>)]
    ELSE g

\* _check_queue: every event of the queue is taken, in order, and handled
CheckQueue(g) ==
    LET g1 == [g EXCEPT !.seen = @ \o g.queue, !.queue = <<>>]
    IN IF \E k \in 1..Len(g.queue) : g.queue[k][1] = "send_complete"
       THEN OnSendComplete(g1)
       ELSE g1

----------------------------------------------------------------------------
(* Inputs *)

\* phones as the operator types them: "1 " and "+2"
PhoneInputs == { <<"1", " ">>, <<"+", "2">> }

\* ... or copies from the account list
KnownPhones == PhoneInputs \cup {accounts[i].phone : i \in 1..Len(accounts)}

\* the session is already authorized, or the code given by hand is accepted,
\* or it is refused; every save succeeds
ManualProfile == CHOOSE pr \in Profiles : pr.first = "Ann"

ManualScenarios ==
    { [LoginDefault EXCEPT !.me = ManualProfile],
      [LoginDefault EXCEPT !.auth = "no", !.me = ManualProfile],
      [LoginDefault EXCEPT !.auth = "no", !.sign = "invalid"] }

TargetLists == {SubSeq(AllTargets, 1, n) : n \in 0..MaxTargets}

ImportLists(maxLen, kindSet) == UNION {[1..n -> kindSet] : n \in 0..maxLen}

----------------------------------------------------------------------------
(* Initial state: a manager constructed with no store file, nothing sent *)

NoDisk == [state |-> "missing", recs |-> <<>>]

NoCall == [op |-> "none"]

Init ==
    /\ accounts = <<>>
    /\ clients = EmptyCache
    /\ handles = <<>>
    /\ files = {}
    /\ disk = NoDisk
    /\ now = 0
    /\ lastOp = NoCall
    /\ opentele \in BOOLEAN
    /\ gui = GuiIdle

\* the same, on a host where the import library loads
InitAvail == Init /\ opentele

\* a record written by an earlier run: "+2", logged in at time 1
StoredAccount ==
    [key |-> <<"+", "2">>, phone |-> <<"+", "2">>, session_file |-> <<"2">>,
     api_url |-> "", name |-> "Old", username |-> "old", user_id |-> "8",
     logged_in |-> TRUE, last_active |-> 1]

\* a manager constructed over the store file an earlier run left
InitStored ==
    /\ accounts = <<StoredAccount>>
    /\ clients = EmptyCache
    /\ handles = <<>>
    /\ files = {StoredAccount.session_file}
    /\ disk = [state |-> "ok", recs |-> <<StoredAccount>>]
    /\ now = 1
    /\ lastOp = NoCall
    /\ opentele = TRUE
    /\ gui = GuiIdle

\* a second record of that run: "+1"
StoredAccountOne ==
    [key |-> <<"+", "1">>, phone |-> <<"+", "1">>, session_file |-> <<"1">>,
     api_url |-> "", name |-> "One", username |-> "one", user_id |-> "7",
     logged_in |-> TRUE, last_active |-> 1]

\* the window opened over the store file an earlier run left with two records
InitGui ==
    /\ accounts = <<StoredAccountOne, StoredAccount>>
    /\ clients = EmptyCache
    /\ handles = <<>>
    /\ files = {StoredAccountOne.session_file, StoredAccount.session_file}
    /\ disk = [state |-> "ok", recs |-> <<StoredAccountOne, StoredAccount>>]
    /\ now = 1
    /\ lastOp = NoCall
    /\ opentele = TRUE
    /\ gui = GuiIdle

\* the manager's variables take the values of m; the call is recorded
Commit(m, call) ==
    /\ accounts' = m.accounts
    /\ clients' = m.clients
    /\ handles' = m.handles
    /\ files' = m.files
    /\ disk' = m.disk
    /\ now' = m.now
    /\ lastOp' = call
    /\ UNCHANGED opentele

----------------------------------------------------------------------------
(* Actions: one per call of the manager or the sender *)

\* the outcome x differs from the default only in calls that login_account
\* makes when given these arguments in this state
LoginRelevant(x, phone, url, mc, m2) ==
    LET p == NormalizePhone(phone)
        known == HasKey(accounts, p)
        u == IF url # "" \/ ~known THEN url ELSE Lookup(accounts, p).api_url
        empty2fa == /\ x.sign = "2fa" /\ m2 = ""
                    /\ (u = "" \/ x.fetch2 = "") /\ x.prompt2 = ""
    IN /\ known => x.save1 = "ok"
       /\ (mc # "" \/ u = "") => x.fetch = "f"
       /\ (mc # "" \/ u # "") => x.prompt = "p"
       /\ (m2 # "" \/ u = "") => x.fetch2 = "F"
       /\ (m2 # "" \/ (u # "" /\ x.fetch2 = "F")) => x.prompt2 = "P"
       \* the client refuses sign_in(password='') without asking the server
       /\ empty2fa => x.sign2 = "raise"

\* login_account, its arguments and external outcomes drawn from the given sets
LoginWith(budget, phones, urls, codes, passwords, scenarios) ==
    /\ Len(handles) < budget
    /\ \E x \in scenarios, mc \in codes, m2 \in passwords :
         \* a manual code or password that the call never reads is left out
         /\ (mc # "" /\ "" \in codes) => (x.auth = "no" /\ x.req = "ok")
         /\ (m2 # "" /\ "" \in passwords) => x.sign = "2fa"
         /\ \E phone \in phones, url \in urls :
              /\ LoginRelevant(x, phone, url, mc, m2)
              /\ \E r \in {LoginAccount(Mgr, phone, url, mc, m2, x)} :
                   Commit(r.m, [op |-> "login", phone |-> phone, url |-> url,
                                manual_code |-> mc, manual_2fa |-> m2, ok |-> r.ok,
                                msg |-> r.msg, detail |-> r.detail, made |-> r.made,
                                saveErr |-> r.saveErr, calls |-> r.calls,
                                me |-> x.me, x |-> x])
    /\ UNCHANGED gui

Login == LoginWith(MaxLogins, PhoneInputs, Urls, ManualCodes, Manual2fa, LoginScenarios)

\* login with the code given by hand, no URL, and a store that saves
ManualLogin == LoginWith(MaxHandles, PhoneInputs, {""}, {"m"}, {"M"}, ManualScenarios)

\* the outcomes of get_client matter only when it constructs a client
GetClientInputs(phone) ==
    IF GetClientConstructs(Mgr, phone) THEN GetClientOutcomes
    ELSE {[conn |-> "ok", auth |-> "yes"]}

GetClientCall ==
    \E phone \in KnownPhones :
      \E x \in GetClientInputs(phone) :
        /\ GetClientConstructs(Mgr, phone) => Len(handles) < MaxHandles
        /\ \E r \in {GetClient(Mgr, opentele, phone, x)} :
              Commit(r.m, [op |-> "get_client", phone |-> phone, ret |-> r.ret,
                           raised |-> r.raised, made |-> r.made, auth |-> r.auth,
                           hit |-> CacheHit(Mgr, NormalizePhone(phone))])
        /\ UNCHANGED gui

CloseAllCall ==
    \E failing \in SUBSET Cached(clients) :
      /\ Commit(CloseAll(Mgr, failing),
                [op |-> "close_all", failing |-> failing, raised |-> FALSE,
                 cached |-> Cached(clients)])
      /\ UNCHANGED gui

\* the outcomes of remove_account matter only when it finds the record
\* os.remove runs only for a record whose session file exists, and the save
\* only when os.remove returned
RemoveInputs(phone) ==
    LET p == NormalizePhone(phone) IN
    IF ~HasKey(accounts, p) THEN {[rm |-> "ok", save |-> "ok"]}
    ELSE IF Lookup(accounts, p).session_file \in files
    THEN {x \in RemoveOutcomes : x.rm = "raise" => x.save = "ok"}
    ELSE {x \in RemoveOutcomes : x.rm = "ok"}

Remove ==
    \E phone \in KnownPhones :
      \E x \in RemoveInputs(phone) :
        /\ \E r \in {RemoveAccount(Mgr, phone, x)} :
              Commit(r.m, [op |-> "remove", phone |-> phone, raised |-> r.raised,
                           rm |-> x.rm,
                           saveErr |-> ~r.raised /\ x.save # "ok",
                           present |-> {accounts[i] : i \in
                                          {j \in 1..Len(accounts) :
                                             accounts[j].phone = phone}}])
        /\ UNCHANGED gui

\* the enumerated accounts and the save matter only past the gates
ImportInputs(gate, maxLen, kindSet, saves) ==
    IF opentele /\ gate = "ok"
    THEN {kinds \in ImportLists(maxLen, kindSet) :
            Len(handles) + ImportConstructs(kinds) <= MaxHandles} \X saves
    ELSE {<< <<>>, "ok" >>}

\* import_from_tdata over at most maxLen enumerated accounts
ImportWith(maxLen, kindSet, saves) ==
    \E gate \in ImportGates :
      \E in \in ImportInputs(gate, maxLen, kindSet, saves) :
        /\ \E r \in {ImportFromTdata(Mgr, opentele, gate, in[1], in[2])} :
              Commit(r.m, [op |-> "import", gate |-> gate, kinds |-> in[1],
                           results |-> r.results, saveErr |-> in[2] # "ok"])
        /\ UNCHANGED gui

\* import_tdata over at most MaxSmallImport enumerated accounts
ImportTdataCall ==
    \E gate \in ImportGates :
      \E in \in ImportInputs(gate, MaxSmallImport, ImportKinds, SaveOutcomes) :
        /\ \E r \in {ImportTdata(Mgr, opentele, gate, in[1], in[2])} :
              Commit(r.m, [op |-> "import_tdata", gate |-> gate, kinds |-> in[1],
                           results |-> r.results, returned |-> r.returned,
                           saveErr |-> in[2] # "ok"])
        /\ UNCHANGED gui

\* several accounts; every way a conversion can fail before the record is stored
Import == ImportWith(MaxImport, ImportKinds \ {"disc"}, SaveOutcomes)

\* few accounts, every outcome of a conversion, the save succeeds
SmallImport == ImportWith(MaxSmallImport, ImportKinds, {"ok"})

Send ==
    \E phone \in KnownPhones, target \in Targets :
      \E gc \in GetClientInputs(phone), out \in SendOutcomes :
        /\ GetClientConstructs(Mgr, phone) => Len(handles) < MaxHandles
        /\ \E r \in {SendFromAccount(Mgr, opentele, phone, target, gc, out)} :
              Commit(r.m, [op |-> "send_from_account", phone |-> phone,
                           target |-> target, raised |-> r.raised, ok |-> r.ok,
                           msg |-> r.msg, sends |-> r.sends])
        /\ UNCHANGED gui

\* the outcomes of the sends matter only when get_client returns a client,
\* and only up to the send that loses the connection
FanOutInputs(phone, targets, gc) ==
    LET g == GetClient(Mgr, opentele, phone, gc)
    IN IF g.raised \/ g.ret = None THEN {[i \in 1..Len(targets) |-> "ok"]}
       ELSE {outs \in [1..Len(targets) -> SendOutcomes] :
               \A i, j \in 1..Len(targets) :
                 (i < j /\ outs[i] = "drop") => outs[j] = "raise"}

FanOut ==
    \E phone \in PhoneInputs :
      /\ GetClientConstructs(Mgr, phone) => Len(handles) < MaxHandles
      /\ \E targets \in TargetLists, gc \in GetClientInputs(phone) :
         \E outs \in FanOutInputs(phone, targets, gc) :
           /\ \E r \in {SendToMultiple(Mgr, opentele, phone, targets, gc, outs)} :
                 Commit(r.m, [op |-> "send_to_multiple", phone |-> phone,
                              targets |-> targets, gc |-> gc, outs |-> outs,
                              raised |-> r.raised,
                              client |-> r.client, results |-> r.results,
                              sends |-> r.sends])
           /\ UNCHANGED gui

\* the outcomes of the external calls send_from_all makes for the i-th record:
\* none for a record that is not marked logged in, those of get_client when it
\* constructs a client, that of the send when a client is resolved
BroadcastOutcomes(i) ==
    LET a == accounts[i]
        quiet == [gc |-> [conn |-> "ok", auth |-> "yes"], out |-> "ok"]
    IN IF ~a.logged_in THEN {quiet}
       ELSE UNION {{[gc |-> gc, out |-> out] :
                      out \in IF gc = quiet.gc THEN SendOutcomes ELSE {"ok"}} :
                     gc \in GetClientInputs(a.key)}

\* ... and none after the record whose client resolution raises
BroadcastInputs ==
    {xs \in [1..Len(accounts) -> UNION {BroadcastOutcomes(i) : i \in 1..Len(accounts)}] :
       /\ \A i \in 1..Len(accounts) : xs[i] \in BroadcastOutcomes(i)
       /\ \A i, j \in 1..Len(accounts) :
            (i < j /\ accounts[i].logged_in /\ GetClientConstructs(Mgr, accounts[i].key)
               /\ (xs[i].gc.conn = "raise" \/ xs[i].gc.auth = "raise"))
              => xs[j] = [gc |-> [conn |-> "ok", auth |-> "yes"], out |-> "ok"]}

\* the clients send_from_all would construct
BroadcastConstructs ==
    Cardinality({i \in 1..Len(accounts) :
                   accounts[i].logged_in /\ GetClientConstructs(Mgr, accounts[i].key)})

SendFromAllCall ==
    /\ Len(handles) + BroadcastConstructs <= MaxHandles
    /\ \E target \in {"t1"}, xs \in BroadcastInputs :
         \E r \in {SendFromAll(Mgr, opentele, target, xs)} :
           Commit(r.m, [op |-> "send_from_all", target |-> target, xs |-> xs,
                        raised |-> r.raised, calls |-> r.calls, results |-> r.results])
    /\ UNCHANGED gui

\* the network: the connection of a connected client is lost
Drop ==
    \E h \in 1..Len(handles) :
      /\ handles[h].connected
      /\ Commit(SetConnected(Mgr, h, FALSE), [op |-> "drop", handle |-> h])
      /\ UNCHANGED gui

\* a click on the check box of an account card
Select ==
    \E i \in 1..Len(accounts), on \in BOOLEAN :
      /\ gui' = OnAccountSelect(gui, accounts[i].phone, on)
      /\ gui' # gui
      /\ UNCHANGED <<accounts, clients, handles, files, disk, now, lastOp, opentele>>

\* a click on the send button, with targets and a text or a voice file given
StartSendClick ==
    /\ gui.send_btn
    /\ gui.selected_accounts # {}
    /\ \E order \in Orders(gui.selected_accounts), targets \in DispatchLists,
          voice \in BOOLEAN :
         gui' = StartSend(gui, order, targets, voice)
    /\ UNCHANGED <<accounts, clients, handles, files, disk, now, lastOp, opentele>>

\* a click on the stop button
StopSendClick ==
    /\ gui.stop_btn
    /\ gui' = StopSend(gui)
    /\ UNCHANGED <<accounts, clients, handles, files, disk, now, lastOp, opentele>>

\* the worker at the head of the loop
WorkerCheck ==
    /\ gui.pc = "check"
    /\ gui' = DoSendCheck(gui)
    /\ UNCHANGED <<accounts, clients, handles, files, disk, now, lastOp, opentele>>

\* the worker sends to targets[i] and books the result
WorkerSend ==
    /\ gui.pc = "send"
    /\ LET phone == DoSendPhone(gui.selected, gui.i)
           target == gui.targets[gui.i + 1]
       IN /\ GetClientConstructs(Mgr, phone) => Len(handles) < MaxHandles
          /\ \E gc \in GetClientInputs(phone), out \in SendOutcomes :
               \E r \in {IF gui.voice
                         THEN SendVoiceMsg(Mgr, opentele, phone, target, gc, out)
                         ELSE SendFromAccount(Mgr, opentele, phone, target, gc, out)} :
                  /\ Commit(r.m, [op |-> "do_send"])
                  /\ gui' = DoSendAfter(gui, phone, target, r.raised)

\* the worker's sleep between two sends ends
WorkerWake ==
    /\ gui.pc = "sleep"
    /\ gui' = [gui EXCEPT !.pc = "check"]
    /\ UNCHANGED <<accounts, clients, handles, files, disk, now, lastOp, opentele>>

\* the window's tick finds send_complete in the queue
SendCompleteTick ==
    /\ gui.pc = "done"
    /\ gui' = OnSendComplete(gui)
    /\ UNCHANGED <<accounts, clients, handles, files, disk, now, lastOp, opentele>>

----------------------------------------------------------------------------
(* Specifications *)

\* the connection cache: logins, lookups, sends, shutdown, lost connections
NextCache == ManualLogin \/ GetClientCall \/ Send \/ CloseAllCall \/ Drop

SpecCache == InitAvail /\ [][NextCache]_vars

\* broadcasts over the store an earlier run left, with logins in between
NextAll == ManualLogin \/ SendFromAllCall \/ Drop

SpecAll == InitStored /\ [][NextAll]_vars

\* the pieces of a response body: text, keywords with and without
\* punctuation, and numbers of four to seven digits
BodyParts ==
    { <<"y", "o", "u", "r", " ">>, <<"code">>, <<"code", ":", " ">>, <<"yzm", ":">>,
      <<":">>, <<" ">>, <<"1", "2", "3", "4">>, <<"4", "8", "2", "9", "1">>,
      <<"1", "2", "3", "4", "5", "6">>, <<"7", "6", "5", "4", "3", "2", "1">> }

RECURSIVE Concat(_)
Concat(parts) == IF parts = <<>> THEN <<>> ELSE Head(parts) \o Concat(Tail(parts))

\* every body of up to MaxParts pieces
Bodies == {Concat(parts) : parts \in UNION {[1..n -> BodyParts] : n \in 0..MaxParts}}

\* a response body (status 200) about to be searched
InitExtract ==
    /\ accounts = <<>>
    /\ clients = EmptyCache
    /\ handles = <<>>
    /\ files = {}
    /\ disk = NoDisk
    /\ now = 0
    /\ lastOp \in {[op |-> "body", text |-> b] : b \in Bodies}
    /\ opentele = TRUE
    /\ gui = GuiIdle

Extract ==
    /\ lastOp.op = "body"
    /\ \E r \in {ExtractCode(lastOp.text)} :
         lastOp' = [op |-> "extract", text |-> lastOp.text, found |-> r.found,
                    code |-> r.code]
    /\ UNCHANGED <<accounts, clients, handles, files, disk, now, opentele, gui>>

SpecExtract == InitExtract /\ [][Extract]_vars

\* programmatic imports over the store file an earlier run left
SpecApi == InitStored /\ [][ImportTdataCall]_vars

\* the account store: logins, imports and deletions
NextStore == ManualLogin \/ SmallImport \/ Remove

SpecStore == Init /\ [][NextStore]_vars

\* imports of several accounts
SpecImport == Init /\ [][Import]_vars

\* fan-out sends over the store an earlier run left
SpecFan == InitGui /\ [][FanOut]_vars

\* the window opened over that store file, seen with its worker loop
InitClose ==
    /\ accounts = <<StoredAccountOne, StoredAccount>>
    /\ clients = EmptyCache
    /\ handles = <<>>
    /\ files = {StoredAccountOne.session_file, StoredAccount.session_file}
    /\ disk = [state |-> "ok", recs |-> <<StoredAccountOne, StoredAccount>>]
    /\ now = 1
    /\ lastOp = NoCall
    /\ opentele = TRUE
    /\ gui = CloseIdle

\* clients are resolved while the window is open
OpenGetClient == gui.win = "open" /\ GetClientCall

\* the main thread submits cleanup() ...
CloseSubmit ==
    /\ gui.win = "open"
    /\ gui' = OnCloseSubmit(gui, clients)
    /\ UNCHANGED <<accounts, clients, handles, files, disk, now, lastOp, opentele>>

\* ... and then schedules loop.stop and destroys the window
CloseStop ==
    /\ gui.win = "closing"
    /\ gui' = OnCloseStop(gui)
    /\ UNCHANGED <<accounts, clients, handles, files, disk, now, lastOp, opentele>>

\* the worker thread runs one iteration of its loop; io tells whether the
\* awaited disconnect has finished when the iteration polls
LoopIteration ==
    /\ gui.running
    /\ \E io \in IF gui.task = "waiting" THEN BOOLEAN ELSE {FALSE} :
         \E ready \in {IF io THEN Append(gui.ready, "step") ELSE gui.ready} :
           /\ ready # <<>>
           /\ \E sync, failing \in IF \E k \in DOMAIN ready : ready[k] = "step"
                                   THEN SUBSET ((Cached(clients) \cup gui.todo
                                                 \cup {gui.pending}) \ {None})
                                   ELSE {{}} :
                \E r \in {RunOnce(Mgr, gui, ready, sync, failing)} :
                  /\ Commit(r.m, [op |-> "loop", ran |-> ready])
                  /\ gui' = r.g

\* the window closing over the clients it resolved
NextClose == OpenGetClient \/ CloseSubmit \/ CloseStop \/ LoopIteration

SpecClose == InitClose /\ [][NextClose]_vars

\* the window with its task queue, over the store an earlier run left
InitQueue ==
    /\ accounts = <<StoredAccountOne, StoredAccount>>
    /\ clients = EmptyCache
    /\ handles = <<>>
    /\ files = {StoredAccountOne.session_file, StoredAccount.session_file}
    /\ disk = [state |-> "ok", recs |-> <<StoredAccountOne, StoredAccount>>]
    /\ now = 1
    /\ lastOp = NoCall
    /\ opentele = TRUE
    /\ gui = QueueIdle

\* a click on the send button; the events seen are counted per dispatch
QueueStart ==
    /\ gui.send_btn
    /\ gui.selected_accounts # {}
    /\ \E order \in Orders(gui.selected_accounts), targets \in QueueLists,
          voice \in BOOLEAN :
         gui' = [StartSend(gui, order, targets, voice) EXCEPT !.seen = <<>>]
    /\ UNCHANGED <<accounts, clients, handles, files, disk, now, lastOp, opentele>>

\* the worker at the head of the loop; when the loop ends the results are put
QueueCheck ==
    /\ gui.pc = "check"
    /\ gui' = PutComplete(DoSendCheck(gui))
    /\ UNCHANGED <<accounts, clients, handles, files, disk, now, lastOp, opentele>>

\* the worker sends to targets[i], books the result and puts the progress
QueueSend ==
    /\ gui.pc = "send"
    /\ LET phone == DoSendPhone(gui.selected, gui.i)
           target == gui.targets[gui.i + 1]
       IN /\ GetClientConstructs(Mgr, phone) => Len(handles) < MaxHandles
          /\ \E gc \in GetClientInputs(phone), out \in SendOutcomes :
               \E r \in {IF gui.voice
                         THEN SendVoiceMsg(Mgr, opentele, phone, target, gc, out)
                         ELSE SendFromAccount(Mgr, opentele, phone, target, gc, out)} :
                  /\ Commit(r.m, [op |-> "do_send"])
                  /\ gui' = PutProgress(DoSendAfter(gui, phone, target, r.raised),
                                        r.raised)

\* the window's tick finds events in the queue
QueueTick ==
    /\ gui.queue # <<>>
    /\ gui' = CheckQueue(gui)
    /\ UNCHANGED <<accounts, clients, handles, files, disk, now, lastOp, opentele>>

\* a dispatch seen through the events it puts in the queue
NextQueue ==
    \/ Select \/ QueueStart \/ StopSendClick
    \/ QueueCheck \/ QueueSend \/ WorkerWake \/ QueueTick

SpecQueue == InitQueue /\ [][NextQueue]_vars

\* the round-robin dispatch of the window
NextGui ==
    \/ Select \/ StartSendClick \/ StopSendClick
    \/ WorkerCheck \/ WorkerSend \/ WorkerWake \/ SendCompleteTick

SpecGui == InitGui /\ [][NextGui]_vars

\* the same with the scheduling the program has: the worker's loop runs the
\* coroutine whenever it can go on, and the window's tick (every 100 ms)
\* empties the queue
SpecGuiLive ==
    /\ SpecGui
    /\ WF_vars(WorkerCheck) /\ WF_vars(WorkerSend) /\ WF_vars(WorkerWake)
    /\ WF_vars(SendCompleteTick)

\* logins that fail: the connection fails, get_me() raises on an authorized
\* session, the code is refused, the password is refused
FailScenarios ==
    { [LoginDefault EXCEPT !.conn = "raise"],
      LoginDefault,
      [LoginDefault EXCEPT !.auth = "no", !.sign = "invalid"],
      [LoginDefault EXCEPT !.auth = "no", !.sign = "2fa", !.sign2 = "raise"] }

\* a login that fails, with or without a new URL
FailingLogin == LoginWith(MaxHandles, PhoneInputs, Urls, {"m"}, {"M"}, FailScenarios)

\* logins that succeed and logins that fail, over the store an earlier run left
NextRelogin == ManualLogin \/ FailingLogin

SpecRelogin == InitStored /\ [][NextRelogin]_vars

\* every operation of the manager that leaves the records in place, over the
\* store an earlier run left
NextFlag ==
    ManualLogin \/ GetClientCall \/ SmallImport \/ Send \/ CloseAllCall

SpecFlag == InitStored /\ [][NextFlag]_vars

\* logins with every argument and every external outcome, on a fresh store
\* and on a store an earlier run left
SpecLogin == (InitAvail \/ InitStored) /\ [][Login]_vars

\* an entry of the store file without session_file
BadEntry == [key |-> <<"+", "3">>, phone |-> <<"+", "3">>]

FileEntries == {StoredAccountOne, StoredAccount, BadEntry}

\* the store files the manager may find: none, one that json.load refuses,
\* and objects of up to MaxFile entries under different keys
DiskFiles ==
    {NoDisk, [state |-> "garbage", recs |-> <<>>]} \cup
    {[state |-> "ok", recs |-> recs] :
       recs \in {q \in UNION {[1..n -> FileEntries] : n \in 0..MaxFile} :
                   \A i, j \in 1..Len(q) : i # j => q[i].key # q[j].key}}

\* AccountManager(): the dictionaries are created empty, then the file is loaded
InitLoad ==
    /\ disk \in DiskFiles
    /\ accounts = LoadAccounts(<<>>, disk)
    /\ clients = EmptyCache
    /\ handles = <<>>
    /\ files = {}
    /\ now = 1
    /\ lastOp = [op |-> "load", initial |-> TRUE]
    /\ opentele = TRUE
    /\ gui = GuiIdle

\* TelegramSenderPro._load_accounts: the selection is cleared and the manager
\* loads the file again
Reload ==
    /\ Commit([Mgr EXCEPT !.accounts = LoadAccounts(@, disk)],
              [op |-> "load", initial |-> FALSE])
    /\ gui' = [gui EXCEPT !.selected_accounts = {}]

\* add_account(phone)
Add ==
    \E phone \in PhoneInputs, save \in SaveOutcomes :
      /\ Commit(AddAccount(Mgr, phone, "", save),
                [op |-> "add", phone |-> phone, saveErr |-> save # "ok"])
      /\ UNCHANGED gui

\* _load_accounts followed by _save_accounts, the save succeeding; n counts
\* the applications in a row
RoundTrip ==
    /\ lastOp.op = "roundtrip" => lastOp.n < 2
    /\ \E loaded \in {LoadAccounts(accounts, disk)} :
         Commit([Mgr EXCEPT !.accounts = loaded,
                            !.disk = SaveAccounts(@, loaded, "ok")],
                [op |-> "roundtrip",
                 n |-> IF lastOp.op = "roundtrip" THEN lastOp.n + 1 ELSE 1])
    /\ UNCHANGED gui

\* the store file read and written back, with records added in between
NextRound == RoundTrip \/ Add

SpecRound == InitLoad /\ [][NextRound]_vars

\* the store over the files a run may find, reloaded by the window
NextLoad == Reload \/ Add \/ Remove

SpecLoad == InitLoad /\ [][NextLoad]_vars

\* the characters of the strings given to _normalize_phone
PhoneChars == {"+", " ", "1", "5"}

\* "+1 555" and "1 555"
PlusOne555 == <<"+", "1", " ", "5", "5", "5">>

One555 == <<"1", " ", "5", "5", "5">>

\* every string of up to MaxPhoneLen characters, and the two above
PhoneStrings ==
    UNION {[1..n -> PhoneChars] : n \in 0..MaxPhoneLen} \cup {PlusOne555, One555}

\* a string about to be normalized
InitNorm ==
    /\ accounts = <<>>
    /\ clients = EmptyCache
    /\ handles = <<>>
    /\ files = {}
    /\ disk = NoDisk
    /\ now = 0
    /\ lastOp \in {[op |-> "phone", input |-> x, prev |-> x, text |-> x, times |-> 0] :
                     x \in PhoneStrings}
    /\ opentele = TRUE
    /\ gui = GuiIdle

\* _normalize_phone applied to the string, then to its own result
Normalize ==
    /\ lastOp.op \in {"phone", "normalized"}
    /\ lastOp.times < 2
    /\ lastOp' = [op |-> "normalized", input |-> lastOp.input, prev |-> lastOp.text,
                  text |-> NormalizePhone(lastOp.text), times |-> lastOp.times + 1]
    /\ UNCHANGED <<accounts, clients, handles, files, disk, now, opentele, gui>>

SpecNorm == InitNorm /\ [][Normalize]_vars

\* spellings of the phone "+1" given at the entry points
EntryPhones ==
    { <<"1">>, <<" ", "1">>, <<"1", " ">>, <<"+", "1">>, <<" ", "+", "1", " ">>,
      <<"+", " ", "1">> }

\* one call at an entry point that takes a phone: the manager afterwards and
\* what the call returned (or that it raised); x holds the outcomes of the
\* external calls it makes
CallGet(m, phone) == [m |-> m, ret |-> GetAccount(m, phone)]

CallRemove(m, phone, x) ==
    LET r == RemoveAccount(m, phone, x) IN [m |-> r.m, ret |-> <<r.raised>>]

CallLogin(m, phone, x) ==
    LET r == LoginAccount(m, phone, "", "m", "", x)
    IN [m |-> r.m, ret |-> <<r.ok, r.msg>>]

CallGetClient(m, avail, phone, x) ==
    LET r == GetClient(m, avail, phone, x) IN [m |-> r.m, ret |-> <<r.ret, r.raised>>]

CallSend(m, avail, phone, x) ==
    LET r == SendFromAccount(m, avail, phone, "t1", x.gc, x.out)
    IN [m |-> r.m, ret |-> <<r.ok, r.msg, r.raised>>]

EntryCall(kind, m, avail, phone, x) ==
    CASE kind = "get" -> CallGet(m, phone)
      [] kind = "remove" -> CallRemove(m, phone, x)
      [] kind = "login" -> CallLogin(m, phone, x)
      [] kind = "get_client" -> CallGetClient(m, avail, phone, x)
      [] kind = "send" -> CallSend(m, avail, phone, x)

EntryGet ==
    \E phone \in EntryPhones :
      /\ \E r \in {CallGet(Mgr, phone)} :
           Commit(r.m, [op |-> "get", phone |-> phone, x |-> "", ret |-> r.ret])
      /\ UNCHANGED gui

EntryRemove ==
    \E phone \in EntryPhones :
      \E x \in RemoveInputs(phone) :
        /\ \E r \in {CallRemove(Mgr, phone, x)} :
             Commit(r.m, [op |-> "remove", phone |-> phone, x |-> x, ret |-> r.ret])
        /\ UNCHANGED gui

EntryLogin ==
    /\ Len(handles) < MaxEntryHandles
    /\ \E phone \in EntryPhones, x \in ManualScenarios :
         \E r \in {CallLogin(Mgr, phone, x)} :
           Commit(r.m, [op |-> "login", phone |-> phone, x |-> x, ret |-> r.ret])
    /\ UNCHANGED gui

EntryGetClient ==
    \E phone \in EntryPhones :
      \E x \in GetClientInputs(phone) :
        /\ GetClientConstructs(Mgr, phone) => Len(handles) < MaxEntryHandles
        /\ \E r \in {CallGetClient(Mgr, opentele, phone, x)} :
             Commit(r.m, [op |-> "get_client", phone |-> phone, x |-> x,
                          ret |-> r.ret])
        /\ UNCHANGED gui

EntrySend ==
    \E phone \in EntryPhones :
      \E gc \in GetClientInputs(phone), out \in SendOutcomes :
        /\ GetClientConstructs(Mgr, phone) => Len(handles) < MaxEntryHandles
        /\ \E r \in {CallSend(Mgr, opentele, phone, [gc |-> gc, out |-> out])} :
             Commit(r.m, [op |-> "send", phone |-> phone,
                          x |-> [gc |-> gc, out |-> out], ret |-> r.ret])
        /\ UNCHANGED gui

\* the entry points called with differently spelled phones, over the store an
\* earlier run left
NextEntry == EntryGet \/ EntryRemove \/ EntryLogin \/ EntryGetClient \/ EntrySend

SpecEntry == InitGui /\ [][NextEntry]_vars

----------------------------------------------------------------------------
(* Claims about the connection cache and the send primitive (SpecCache) *)

\* C1: send_from_account always returns a (success, message) tuple; it never
\* raises, whatever external call fails, the connect and the authorization
\* check of the client resolution included.
C1_SendNeverRaises ==
    lastOp.op = "send_from_account" => ~lastOp.raised

\* C7: get_client returns a handle only if the handle reports connected (cache
\* hit) or was just connected and reported authorized (reconnect); it returns
\* None when no connected handle is cached and either no record exists or the
\* session is not authorized; a returned handle is cached under the
\* normalized phone.
C7_GetClientContract ==
    (lastOp.op = "get_client" /\ ~lastOp.raised) =>
      LET p == NormalizePhone(lastOp.phone)
          h == lastOp.ret
      IN /\ h # None =>
              /\ p \in DOMAIN clients /\ clients[p] = h
              /\ IsConnected(handles, h)
              /\ \/ lastOp.hit /\ lastOp.made = None
                 \/ ~lastOp.hit /\ lastOp.made = h /\ lastOp.auth = "yes"
         /\ (~lastOp.hit /\ ~HasKey(accounts, p)) => h = None
         /\ (~lastOp.hit /\ lastOp.auth = "no") => h = None

\* C7 witness: a reconnect returned the handle it had just constructed
C7_Witness ==
    /\ lastOp.op = "get_client" /\ ~lastOp.raised
    /\ lastOp.ret # None /\ lastOp.made = lastOp.ret /\ lastOp.auth = "yes"

\* C8: after get_client(phone) returns, with any result, the cache holds no
\* handle for that phone that reports disconnected.
C8_NoStaleHandleAfterGetClient ==
    (lastOp.op = "get_client" /\ ~lastOp.raised) =>
      LET p == NormalizePhone(lastOp.phone)
      IN p \in DOMAIN clients => IsConnected(handles, clients[p])

\* C9: close_all invokes disconnect on every cached handle, an error on one
\* handle does not keep the others from being disconnected, the cache is empty
\* afterwards, and the call does not raise.
C9_CloseAll ==
    lastOp.op = "close_all" =>
      /\ ~lastOp.raised
      /\ clients = EmptyCache
      /\ \A h \in lastOp.cached : handles[h].disconnects >= 1
      /\ \A h \in lastOp.cached \ lastOp.failing : ~IsConnected(handles, h)

\* C9 witness: two handles were cached and the disconnect of one of them raised
C9_Witness ==
    /\ lastOp.op = "close_all"
    /\ Cardinality(lastOp.cached) >= 2
    /\ lastOp.failing # {} /\ lastOp.failing # lastOp.cached

----------------------------------------------------------------------------
(* Claims about login (SpecLogin) *)

\* the record, the cache and the handle after a successful login
LoginSuccessState(p) ==
    /\ HasKey(accounts, p)
    /\ LET a == Lookup(accounts, p) IN
         /\ a.logged_in
         /\ a.name = FullName(lastOp.me) /\ a.username = lastOp.me.username
         /\ a.user_id = lastOp.me.id
         /\ a.last_active = now
    /\ p \in DOMAIN clients /\ clients[p] = lastOp.made
    /\ IsConnected(handles, lastOp.made)

\* the store file holds the record as it is in memory
LoginPersisted(p) ==
    /\ disk.state = "ok" /\ HasKey(disk.recs, p)
    /\ Lookup(disk.recs, p) = Lookup(accounts, p)

\* C10: whenever login returns success, by either path, the record of the
\* normalized phone is authenticated with refreshed profile fields and
\* timestamp, the store file contains that record state, and the cache maps
\* the phone to the handle just authorized.
C10_LoginSuccess ==
    (lastOp.op = "login" /\ lastOp.ok) =>
      /\ LoginSuccessState(NormalizePhone(lastOp.phone))
      /\ LoginPersisted(NormalizePhone(lastOp.phone))

\* C10 as amended: the store file contains the record state unless the save
\* failed (the failure is printed and swallowed, login still returns success).
C10_LoginSuccessUnlessSaveFails ==
    (lastOp.op = "login" /\ lastOp.ok) =>
      /\ LoginSuccessState(NormalizePhone(lastOp.phone))
      /\ ~lastOp.saveErr => LoginPersisted(NormalizePhone(lastOp.phone))

\* C10 witness: the record an earlier run left was refreshed by a login that
\* went through the code and the password, and was saved
C10_Witness ==
    /\ lastOp.op = "login" /\ lastOp.ok /\ ~lastOp.saveErr
    /\ lastOp.msg = "ok"
    /\ \E i \in 1..Len(lastOp.calls) : lastOp.calls[i][1] = "sign_in_password"
    /\ NormalizePhone(lastOp.phone) = StoredAccount.key
    /\ Lookup(accounts, StoredAccount.key).last_active > StoredAccount.last_active

----------------------------------------------------------------------------
(* Claims about the account store (SpecStore) and the import (SpecImport) *)

\* C2: for every record r present in the store (created by login or by
\* import), after remove(r.phone) returns, r is absent from list() and r's
\* session artifact is no longer present.
C2_RemoveDeletesRecordAndArtifact ==
    (lastOp.op = "remove" /\ ~lastOp.raised) =>
      \A r \in lastOp.present :
        /\ \A i \in 1..Len(accounts) : accounts[i].phone # r.phone
        /\ r.session_file \notin files

\* the record import stores for the i-th enumerated account
ImportedKey(i, kind) == ImportedPhone(ExtMe(i, kind))

\* C3: an import over N enumerated accounts returns exactly N outcomes in
\* enumeration order, whatever conversions raise or are unauthorized, and every
\* account whose conversion succeeded has a record in the store afterwards.
C3_ImportIsolation ==
    (lastOp.op = "import" /\ opentele /\ lastOp.gate = "ok") =>
      /\ Len(lastOp.results) = Len(lastOp.kinds)
      /\ \A i \in 1..Len(lastOp.kinds) :
           LET kind == lastOp.kinds[i]
               out == lastOp.results[i]
           IN /\ out[1] = (kind \in {"phone", "nophone"})
              /\ out[3] = (CASE kind \in {"phone", "nophone"} -> ImportedKey(i, kind)
                             [] kind = "unauth" -> ExtUid(i)
                             [] OTHER -> i)
              /\ out[1] => HasKey(accounts, ImportedKey(i, kind))

\* C3 witness: three accounts, the conversion of the second raises, the first
\* and the third are in the store
C3_Witness ==
    /\ lastOp.op = "import" /\ opentele /\ lastOp.gate = "ok"
    /\ Len(lastOp.kinds) = 3 /\ Len(lastOp.results) = 3
    /\ lastOp.kinds[2] \in {"conv", "conn"}
    /\ lastOp.results[1][1] /\ ~lastOp.results[2][1] /\ lastOp.results[3][1]
    /\ HasKey(accounts, ImportedKey(1, lastOp.kinds[1]))
    /\ HasKey(accounts, ImportedKey(3, lastOp.kinds[3]))

----------------------------------------------------------------------------
(* Claims about the fan-out (SpecFan) *)

\* the sends issued and the list returned cover the targets, one by one
FanOutCoversTargets ==
    /\ Len(lastOp.sends) = Len(lastOp.targets)
    /\ Len(lastOp.results) = Len(lastOp.targets)
    /\ \A i \in 1..Len(lastOp.targets) :
         /\ lastOp.sends[i] = <<lastOp.client, lastOp.targets[i]>>
         /\ lastOp.results[i][1] = lastOp.targets[i]
         /\ lastOp.results[i][2] \in BOOLEAN

\* C6: in send_to_multiple every target of the list is attempted exactly once,
\* in list order, and the list returned holds one (target, success) entry per
\* target, whatever sends fail (stated of the calls that return).
C6_FanOutAttemptsEveryTarget ==
    (lastOp.op = "send_to_multiple" /\ ~lastOp.raised) => FanOutCoversTargets

\* C6 as amended: when get_client returns a client, every target is attempted
\* exactly once, in list order, with one (target, success) entry each, whatever
\* sends fail; when get_client returns None no target is attempted and the list
\* returned is empty.
C6_FanOutWhenClientResolved ==
    (lastOp.op = "send_to_multiple" /\ ~lastOp.raised) =>
      IF lastOp.client # None THEN FanOutCoversTargets
      ELSE lastOp.sends = <<>> /\ lastOp.results = <<>>

\* C6 witness: three targets, the send to the second fails, the third is
\* attempted and succeeds
C6_Witness ==
    /\ lastOp.op = "send_to_multiple" /\ lastOp.client # None
    /\ Len(lastOp.targets) = 3 /\ Len(lastOp.sends) = 3
    /\ lastOp.results[1][2] /\ ~lastOp.results[2][2] /\ lastOp.results[3][2]

----------------------------------------------------------------------------
(* Claims about the round-robin dispatch (SpecGui) *)

\* C4: if the cancel flag is set after the k-th send of a dispatch of N
\* targets has completed (1 <= k < N), the dispatch performs at least k and at
\* most k + 1 sends: the iteration that finds the flag set starts no send.
C4_CancelBound ==
    (gui.stopAt >= 1 /\ gui.stopAt < Len(gui.targets)) =>
      /\ gui.stopAt <= Len(gui.sendLog)
      /\ Len(gui.sendLog) <= gui.stopAt + 1
      /\ (gui.pc = "send" => Len(gui.sendLog) = gui.stopAt)

\* C4 witness: five targets, the flag set after the second send with the third
\* in flight; the dispatch ended after three sends
C4_Witness ==
    /\ Len(gui.targets) = 5 /\ gui.stopAt = 2
    /\ gui.pc = "done" /\ Len(gui.sendLog) = 3

\* C5: the i-th target (from 0) is sent from accounts[i mod len(accounts)],
\* accounts being the selection as listed when the dispatch started, and the
\* sends are issued in the order of the target list; a dispatch that is not
\* cancelled sends to every target.
C5_RoundRobin ==
    /\ \A j \in 1..Len(gui.sendLog) :
         gui.sendLog[j] =
           <<gui.selected[((j - 1) % Len(gui.selected)) + 1], gui.targets[j]>>
    /\ (gui.pc = "done" /\ gui.stopAt = NotStopped) =>
         Len(gui.sendLog) = Len(gui.targets)

\* C5 witness: two accounts, three targets, the third sent from the first
\* account again although the selection was changed meanwhile
C5_Witness ==
    /\ Len(gui.selected) = 2 /\ Len(gui.targets) = 3 /\ gui.pc = "done"
    /\ Len(gui.sendLog) = 3
    /\ gui.sendLog[1][1] = gui.selected[1] /\ gui.sendLog[2][1] = gui.selected[2]
    /\ gui.sendLog[3][1] = gui.selected[1]
    /\ gui.selected_accounts = {}

----------------------------------------------------------------------------
(* Claims about the steps of a login (SpecLogin) *)

\* the external calls of the last login
Called(name) == \E i \in 1..Len(lastOp.calls) : lastOp.calls[i][1] = name

TimesCalled(name) ==
    Cardinality({i \in 1..Len(lastOp.calls) : lastOp.calls[i][1] = name})

Submitted(name, arg) == \E i \in 1..Len(lastOp.calls) : lastOp.calls[i] = <<name, arg>>

\* the login found the session authorized after connecting
WasAuthorized == lastOp.x.conn = "ok" /\ lastOp.x.auth = "yes"

\* the login got as far as resolving the code
CodeWanted == lastOp.x.conn = "ok" /\ lastOp.x.auth = "no" /\ lastOp.x.req = "ok"

\* the code submission was answered by SessionPasswordNeededError
PasswordWanted == Called("sign_in") /\ lastOp.x.sign = "2fa"

\* the verificationSourceUrl of the record the login worked on
RecordUrl == Lookup(accounts, NormalizePhone(lastOp.phone)).api_url

\* no code is requested, resolved or submitted, and no password
NoCodeSteps ==
    \A n \in {"send_code_request", "fetch_code", "prompt_code", "sign_in",
              "fetch_2fa", "prompt_2fa", "sign_in_password"} : ~Called(n)

\* every submission of a code comes after a code request of the same call
CodeOnlyAfterRequest ==
    \A i \in 1..Len(lastOp.calls) :
      lastOp.calls[i][1] = "sign_in" =>
        \E j \in 1..(i - 1) : lastOp.calls[j][1] = "send_code_request"

\* C11: if the session is already authorized after connecting, login returns
\* success without requesting a code, without resolving one and without
\* submitting a code or a password; a code is submitted only after a code
\* request of the same call.
C11_AuthorizedSkipsCode ==
    lastOp.op = "login" =>
      /\ WasAuthorized => (lastOp.ok /\ NoCodeSteps)
      /\ CodeOnlyAfterRequest

\* C11 as amended: an authorized session makes login skip every code and
\* password step; it returns success unless get_me() fails, and then the
\* generic failure.
C11_AuthorizedSkipsCodeUnlessProfileFails ==
    lastOp.op = "login" =>
      /\ WasAuthorized =>
           /\ NoCodeSteps
           /\ lastOp.ok = (lastOp.x.me # MeRaises)
           /\ lastOp.ok => lastOp.msg = "already"
           /\ ~lastOp.ok => lastOp.msg = "failed"
      /\ CodeOnlyAfterRequest

\* C11 witness: an authorized session, success after connect, the
\* authorization check and get_me only
C11_Witness ==
    /\ lastOp.op = "login" /\ WasAuthorized /\ lastOp.ok
    /\ lastOp.calls = << <<"connect", "">>, <<"is_user_authorized", "">>, <<"get_me", "">> >>

\* C12: the code is the manual argument when given (no fetch, no prompt);
\* otherwise it is fetched when the record has a URL (no prompt, a failed
\* fetch ends the login with a failure); the prompt is used only with neither
\* a manual code nor a URL.
C12_CodePriority ==
    (lastOp.op = "login" /\ CodeWanted) =>
      /\ lastOp.manual_code # "" =>
           /\ ~Called("fetch_code") /\ ~Called("prompt_code")
           /\ Submitted("sign_in", lastOp.manual_code)
      /\ (lastOp.manual_code = "" /\ RecordUrl # "") =>
           /\ Called("fetch_code") /\ ~Called("prompt_code")
           /\ IF lastOp.x.fetch = ""
              THEN ~lastOp.ok /\ lastOp.msg = "fetch_failed" /\ ~Called("sign_in")
              ELSE Submitted("sign_in", lastOp.x.fetch)
      /\ (lastOp.manual_code = "" /\ RecordUrl = "") =>
           /\ Called("prompt_code") /\ ~Called("fetch_code")
           /\ IF lastOp.x.prompt = ""
              THEN ~lastOp.ok /\ lastOp.msg = "no_code" /\ ~Called("sign_in")
              ELSE Submitted("sign_in", lastOp.x.prompt)

\* C12 witness: a manual code wins over the URL of the record
C12_Witness ==
    /\ lastOp.op = "login" /\ CodeWanted
    /\ lastOp.manual_code # "" /\ RecordUrl # ""
    /\ Submitted("sign_in", lastOp.manual_code)

\* a password is submitted only after the code submission asked for it, once
PasswordOnlyWhenWanted ==
    /\ Called("sign_in_password") => PasswordWanted
    /\ TimesCalled("sign_in_password") <= 1
    /\ \A i \in 1..Len(lastOp.calls) :
         lastOp.calls[i][1] = "sign_in_password" =>
           \E j \in 1..(i - 1) : lastOp.calls[j][1] = "sign_in"

\* C13: a password is submitted only after the code submission signalled a
\* second factor, at most once; it is resolved as the code is: the manual
\* argument if given, else the fetch if the record has a URL, else the prompt.
C13_PasswordPriority ==
    lastOp.op = "login" =>
      /\ PasswordOnlyWhenWanted
      /\ PasswordWanted =>
           /\ lastOp.manual_2fa # "" =>
                /\ ~Called("fetch_2fa") /\ ~Called("prompt_2fa")
                /\ Submitted("sign_in_password", lastOp.manual_2fa)
           /\ (lastOp.manual_2fa = "" /\ RecordUrl # "") =>
                /\ Called("fetch_2fa") /\ ~Called("prompt_2fa")
                /\ Submitted("sign_in_password", lastOp.x.fetch2)
           /\ (lastOp.manual_2fa = "" /\ RecordUrl = "") =>
                /\ Called("prompt_2fa") /\ ~Called("fetch_2fa")
                /\ Submitted("sign_in_password", lastOp.x.prompt2)

\* C13 as amended: with a URL on the record the password is fetched, and the
\* operator is prompted when the fetch fails or finds no password.
C13_PasswordPriorityWithFallback ==
    lastOp.op = "login" =>
      /\ PasswordOnlyWhenWanted
      /\ PasswordWanted =>
           /\ lastOp.manual_2fa # "" =>
                /\ ~Called("fetch_2fa") /\ ~Called("prompt_2fa")
                /\ Submitted("sign_in_password", lastOp.manual_2fa)
           /\ (lastOp.manual_2fa = "" /\ RecordUrl # "") =>
                /\ Called("fetch_2fa")
                /\ IF lastOp.x.fetch2 # ""
                   THEN /\ ~Called("prompt_2fa")
                        /\ Submitted("sign_in_password", lastOp.x.fetch2)
                   ELSE /\ Called("prompt_2fa")
                        /\ Submitted("sign_in_password", lastOp.x.prompt2)
           /\ (lastOp.manual_2fa = "" /\ RecordUrl = "") =>
                /\ Called("prompt_2fa") /\ ~Called("fetch_2fa")
                /\ Submitted("sign_in_password", lastOp.x.prompt2)

\* C13 witness: the fetch of the password failed, the operator was asked, and
\* the password given was accepted
C13_Witness ==
    /\ lastOp.op = "login" /\ PasswordWanted /\ lastOp.ok
    /\ lastOp.manual_2fa = "" /\ RecordUrl # "" /\ lastOp.x.fetch2 = ""
    /\ Called("fetch_2fa") /\ Submitted("sign_in_password", "P")

\* what the last external call of the login ran into
LastCall == lastOp.calls[Len(lastOp.calls)][1]

LastOutcome ==
    CASE LastCall = "connect" -> lastOp.x.conn
      [] LastCall = "is_user_authorized" -> lastOp.x.auth
      [] LastCall = "send_code_request" -> lastOp.x.req
      [] LastCall = "fetch_code" -> IF lastOp.x.fetch = "" THEN "nofetch" ELSE "ok"
      [] LastCall = "prompt_code" -> IF lastOp.x.prompt = "" THEN "empty" ELSE "ok"
      [] LastCall = "sign_in" -> lastOp.x.sign
      [] LastCall = "sign_in_password" -> lastOp.x.sign2
      [] LastCall = "get_me" -> IF lastOp.x.me = MeRaises THEN "raise" ELSE "ok"
      [] OTHER -> "ok"

\* C14: each failure cause is returned as a failure with its own message:
\* rate-limited (with the seconds to wait), code expired, code invalid, code
\* missing or empty, and any other failure (its text passed through); no two
\* causes share a message, and the code request and the code submission are
\* each issued at most once per call.
C14_FailureMessages ==
    lastOp.op = "login" =>
      /\ lastOp.ok = (LastOutcome = "ok" /\ LastCall = "get_me")
      /\ ~lastOp.ok =>
           /\ (lastOp.msg = "flood") = (LastOutcome = "flood")
           /\ (lastOp.msg = "expired") = (LastOutcome = "expired")
           /\ (lastOp.msg = "invalid") = (LastOutcome = "invalid")
           /\ (lastOp.msg \in {"fetch_failed", "no_code"}) =
                (LastOutcome \in {"nofetch", "empty"})
           /\ (lastOp.msg = "failed") = (LastOutcome = "raise")
           /\ lastOp.msg \in {"flood", "failed"} => lastOp.detail = lastOp.x.detail
           /\ lastOp.msg = "flood" => lastOp.detail \in FloodSeconds
      /\ TimesCalled("send_code_request") <= 1
      /\ TimesCalled("sign_in") <= 1

\* C14 witness: the code request is rate-limited, the failure carries the
\* 60 seconds to wait
C14_Witness ==
    /\ lastOp.op = "login" /\ ~lastOp.ok
    /\ LastCall = "send_code_request" /\ lastOp.msg = "flood" /\ lastOp.detail = "60"

\* the password resolved for a required second factor is empty
EmptyPassword ==
    /\ PasswordWanted /\ lastOp.manual_2fa = ""
    /\ (RecordUrl = "" \/ lastOp.x.fetch2 = "") /\ lastOp.x.prompt2 = ""

\* C15: when a second factor is required and the resolved password is missing
\* or empty, login returns a failure with a message of its own, not the
\* generic one, and no empty password is submitted.
C15_MissingSecondFactor ==
    (lastOp.op = "login" /\ EmptyPassword) =>
      /\ ~lastOp.ok /\ lastOp.msg # "failed"
      /\ ~Submitted("sign_in_password", "")

\* C16: when login returns, with success or failure and without a save I/O
\* error, the store file equals the in-memory store, the record's URL included
\* when the login was given a new one.
C16_LoginLeavesStoreSaved ==
    (lastOp.op = "login" /\ lastOp.x.save1 = "ok" /\ lastOp.x.save2 = "ok") =>
      disk.state = "ok" /\ disk.recs = accounts

----------------------------------------------------------------------------
(* Claims about removal when the artifact cannot be deleted (SpecStore) *)

\* C18: a failure to delete the session artifact is non-fatal for remove:
\* remove returns without raising, the record is absent from the in-memory
\* store, and the store file is rewritten without the record.
C18_ArtifactFailureNonFatal ==
    (lastOp.op = "remove" /\ lastOp.rm = "raise") =>
      /\ ~lastOp.raised
      /\ ~HasKey(accounts, NormalizePhone(lastOp.phone))
      /\ disk.state = "ok" /\ disk.recs = accounts

----------------------------------------------------------------------------
(* Claims about loading the store file (SpecLoad) *)

\* the records of a file: none when it is missing, unparseable, or holds an
\* entry that cannot be turned into a record
RecordsOf(d) ==
    IF d.state = "ok" /\ \A i \in 1..Len(d.recs) : Convertible(d.recs[i])
    THEN {FromEntry(d.recs[i]) : i \in 1..Len(d.recs)}
    ELSE {}

\* C17: after load() returns the in-memory store holds exactly the records of
\* the file: the empty store when the file is missing or corrupt (no partial
\* set of records); this holds for the initial load and for every reload.
C17_LoadYieldsFileRecords ==
    lastOp.op = "load" =>
      /\ {accounts[i] : i \in 1..Len(accounts)} = RecordsOf(disk)
      /\ Len(accounts) = Cardinality(RecordsOf(disk))

----------------------------------------------------------------------------
(* Claims about the phone normalization (SpecNorm) *)

\* C19: the normalization is idempotent, normalize(normalize(x)) =
\* normalize(x) for every string x, the empty string, a lone '+' and strings
\* with whitespace right after the '+' included, and normalize("+1 555") =
\* normalize("1 555").
C19_NormalizeIdempotent ==
    /\ (lastOp.op = "normalized" /\ lastOp.times = 2) => lastOp.text = lastOp.prev
    /\ (lastOp.op = "normalized" /\ lastOp.times = 1
          /\ lastOp.input \in {PlusOne555, One555}) => lastOp.text = PlusOne555

\* C19 witness: " 1 " was normalized to "+1", and normalizing "+1" gave "+1"
C19_Witness ==
    /\ lastOp.op = "normalized" /\ lastOp.times = 2
    /\ lastOp.input = <<" ", "1", " ">>
    /\ lastOp.prev = <<"+", "1">> /\ lastOp.text = <<"+", "1">>

----------------------------------------------------------------------------
(* Claims about the phone spelling at the entry points (SpecEntry) *)

EntryKinds == {"get", "remove", "login", "get_client", "send"}

\* x and y differ only by surrounding whitespace
SameButWhitespace(x, y) == Strip(x) = Strip(y)

\* y is x with a '+' in front
PlusInFront(x, y) == StartsWith(y, "+") /\ ~StartsWith(x, "+") /\ Tail(y) = x

\* x and y differ only by the presence of the leading '+'
SameButPlus(x, y) == PlusInFront(x, y) \/ PlusInFront(y, x)

\* ... and the one without the '+' does not start with whitespace
SameButPlusNoGap(x, y) ==
    \/ PlusInFront(x, y) /\ ~StartsWith(x, " ")
    \/ PlusInFront(y, x) /\ ~StartsWith(y, " ")

\* the call of this step, made on the same manager with the phone spelled y,
\* leaves the same manager (store, cache, clients, files) and returns the same
SameCallWith(y) ==
    EntryCall(lastOp'.op, Mgr, opentele, y, lastOp'.x) =
      [m |-> Mgr', ret |-> lastOp'.ret]

EntryPointsAgree(Variant(_, _)) ==
    lastOp'.op \in EntryKinds =>
      \A y \in EntryPhones : Variant(lastOp'.phone, y) => SameCallWith(y)

FormattingVariant(x, y) == SameButWhitespace(x, y) \/ SameButPlus(x, y)

FormattingVariantNoGap(x, y) == SameButWhitespace(x, y) \/ SameButPlusNoGap(x, y)

\* C20: normalization is applied at every entry point: get, remove, login,
\* getClient and sendFromAccount called with x, and called with a y that
\* differs from x only by surrounding whitespace or by the presence of the
\* leading '+', address the same record and the same cache entry.
C20_EntryPointsNormalize == [][EntryPointsAgree(FormattingVariant)]_vars

\* C20 as amended: the same, where a y that differs from x by the leading '+'
\* has the '+' in front of a string that does not start with whitespace.
C20_EntryPointsNormalizeNoGap == [][EntryPointsAgree(FormattingVariantNoGap)]_vars

\* C20 witness: getClient("1 ") returned the client cached under "+1" by a
\* login that was given "+1"
C20_Witness ==
    /\ lastOp.op = "get_client" /\ lastOp.phone = <<"1", " ">>
    /\ <<"+", "1">> \in DOMAIN clients
    /\ lastOp.ret = <<clients[<<"+", "1">>], FALSE>>

----------------------------------------------------------------------------
(* Claims about the session artifacts of the records (SpecStore) *)

\* C21: in every reachable state, after any sequence of login, import and
\* remove, no two distinct records of the store have the same session file.
C21_SessionFileUnique ==
    \A i, j \in 1..Len(accounts) :
      i # j => accounts[i].session_file # accounts[j].session_file

----------------------------------------------------------------------------
(* Claims about the gates of the import (SpecStore) *)

\* the import of this step stops at a gate: the library is unavailable, or
\* the path does not exist
StopsAtGate == lastOp'.op = "import" /\ (~opentele \/ lastOp'.gate = "nopath")

\* C22: if the import library is unavailable, or the path does not exist, the
\* import returns exactly one failure outcome (naming the limitation,
\* respectively the path), does no per-account work, and leaves the in-memory
\* store, the store file and the connection cache unchanged.
C22_ImportGates ==
    [][StopsAtGate =>
         /\ lastOp'.results =
              << <<FALSE, IF ~opentele THEN "unavailable" ELSE "nopath", 0>> >>
         /\ handles' = handles /\ files' = files
         /\ accounts' = accounts /\ disk' = disk /\ clients' = clients]_vars

\* C22 witness: an import stopped by the missing library, called on a manager
\* that holds a record and a cached client while no store file was written
C22_Witness ==
    /\ lastOp.op = "import" /\ ~opentele
    /\ lastOp.results = << <<FALSE, "unavailable", 0>> >>
    /\ accounts # <<>> /\ DOMAIN clients # {} /\ disk # [state |-> "ok", recs |-> accounts]

----------------------------------------------------------------------------
(* Claims about the clients of the import (SpecStore) *)

\* the client objects constructed by this step
CreatedNow == (Len(handles) + 1)..Len(handles')

\* C23: the import keeps no live connection: when it returns, every client it
\* created has had disconnect invoked, on the authorized, the unauthorized and
\* the exception path alike, and the connection cache is as before the call.
C23_ImportDisconnects ==
    [][lastOp'.op = "import" =>
         /\ \A h \in CreatedNow : handles'[h].disconnects >= 1
         /\ \A h \in 1..Len(handles) : handles'[h] = handles[h]
         /\ clients' = clients]_vars

\* C23 witness: an import whose one account was not authorized: its client is
\* disconnected, a client cached by an earlier login is still cached
C23_Witness ==
    /\ lastOp.op = "import" /\ lastOp.kinds = <<"unauth">>
    /\ Len(handles) = 2 /\ handles[2].disconnects = 1 /\ ~handles[2].connected
    /\ DOMAIN clients # {} /\ IsConnected(handles, 1)

----------------------------------------------------------------------------
(* Claims about the broadcast (SpecAll) *)

\* the records marked logged in, in store order
Authenticated == SelectSeq(accounts, LAMBDA a : a.logged_in)

\* C24: send_from_all attempts exactly one send per record marked
\* authenticated, in store order, and returns one (phone, success, message)
\* result for each of them in that order; a record not marked authenticated
\* causes no client lookup and no result; a failed attempt for one account does
\* not prevent the attempts for the later accounts.
C24_BroadcastCoversAuthenticated ==
    lastOp.op = "send_from_all" =>
      /\ ~lastOp.raised
      /\ Len(lastOp.calls) = Len(Authenticated)
      /\ Len(lastOp.results) = Len(Authenticated)
      /\ \A i \in 1..Len(Authenticated) :
           /\ lastOp.calls[i] = Authenticated[i].key
           /\ lastOp.results[i][1] = Authenticated[i].key

----------------------------------------------------------------------------
(* Claims about the fan-out and the send primitive (SpecFan) *)

\* send_from_account(phone, t, message) called for each t of targets[i..] in
\* order, with the outcomes the fan-out met: whether a call raised, the success
\* flag of each call that returned, the targets send_message was called with
RECURSIVE PrimitiveRun(_, _, _, _, _, _, _, _, _)
PrimitiveRun(m, avail, phone, targets, gc, outs, i, flags, sent) ==
    IF i > Len(targets) THEN [raised |-> FALSE, flags |-> flags, sent |-> sent]
    ELSE LET r == SendFromAccount(m, avail, phone, targets[i], gc, outs[i])
         IN IF r.raised THEN [raised |-> TRUE, flags |-> flags, sent |-> sent]
            ELSE PrimitiveRun(r.m, avail, phone, targets, gc, outs, i + 1,
                              Append(flags, r.ok),
                              sent \o [k \in 1..Len(r.sends) |-> r.sends[k][2]])

\* C25: in every cache and connection state, send_to_multiple(phone, targets)
\* attempts the same targets in the same order and yields the same per-target
\* success flags as send_from_account(phone, t) called for each t in order
\* (stated of the calls that return).
C25_FanOutIsPrimitive ==
    [][(lastOp'.op = "send_to_multiple" /\ ~lastOp'.raised) =>
         LET ref == PrimitiveRun(Mgr, opentele, lastOp'.phone, lastOp'.targets,
                                 lastOp'.gc, lastOp'.outs, 1, <<>>, <<>>)
         IN /\ ~ref.raised
            /\ ref.sent = [k \in 1..Len(lastOp'.sends) |-> lastOp'.sends[k][2]]
            /\ ref.flags = [k \in 1..Len(lastOp'.results) |-> lastOp'.results[k][2]]]_vars

----------------------------------------------------------------------------
(* Claims about the programmatic import (SpecApi) *)

\* the phones of the accounts the import of the last call reported imported
ImportedNow ==
    {lastOp.results[i][3] : i \in {k \in 1..Len(lastOp.results) : lastOp.results[k][1]}}

\* C26: import_tdata(path) returns summaries of exactly the accounts imported
\* by that call: an account that was already in the store and was not imported
\* by this call is not returned, and a call whose import fails at the
\* capability gate or on a missing path returns the empty list.
C26_ReturnsImportedOnly ==
    lastOp.op = "import_tdata" =>
      /\ {lastOp.returned[i].phone : i \in 1..Len(lastOp.returned)} = ImportedNow
      /\ lastOp.gate = "nopath" => lastOp.returned = <<>>

----------------------------------------------------------------------------
(* Claims about the extraction of the code (SpecExtract) *)

\* a digit run of text: a maximal stretch of digits, as <<first, last>>
DigitRuns(text) ==
    {<<i, j>> \in (1..Len(text)) \X (1..Len(text)) :
       /\ i <= j /\ \A k \in i..j : IsDigit(text[k])
       /\ (i = 1 \/ ~IsDigit(text[i - 1]))
       /\ (j = Len(text) \/ ~IsDigit(text[j + 1]))}

\* the runs of five or six digits
CodeRuns(text) == {r \in DigitRuns(text) : r[2] - r[1] \in {4, 5}}

\* ... of which those that follow a keyword and colons or whitespace
LabeledRuns(text) ==
    {r \in CodeRuns(text) :
       \E i \in 1..(r[1] - 1) :
         /\ text[i] \in CodeKeywords
         /\ \A k \in (i + 1)..(r[1] - 1) : IsColonOrSpace(text[k])}

FirstRun(R) == CHOOSE r \in R : \A q \in R : r[1] <= q[1]

\* C27: the extraction returns the digits of the first labeled code (keyword,
\* optional colon or whitespace, 5-6 digits) when there is one, even after an
\* earlier unlabeled number; otherwise the first bare run of 5-6 digits; a body
\* with no digit run of length 5-6 fails with "not found"; "your code: 48291"
\* yields "48291".
C27_ExtractCode ==
    lastOp.op = "extract" =>
      LET t == lastOp.text IN
      IF LabeledRuns(t) # {}
      THEN LET r == FirstRun(LabeledRuns(t))
           IN lastOp.found /\ lastOp.code = SubSeq(t, r[1], r[2])
      ELSE IF CodeRuns(t) # {}
      THEN LET r == FirstRun(CodeRuns(t))
           IN lastOp.found /\ lastOp.code = SubSeq(t, r[1], r[2])
      ELSE ~lastOp.found

----------------------------------------------------------------------------
(* Claims about the round trip of the store file (SpecRound) *)

\* C28: the serialization of the store is stable: load followed by save
\* yields the same file after one application and after two, and the records
\* loaded back equal the records saved (same keys, same field values, same
\* order).
C28_RoundTripStable ==
    [][lastOp'.op = "roundtrip" =>
         /\ LoadAccounts(<<>>, disk') = accounts'
         /\ lastOp.op = "roundtrip" => disk' = disk]_vars

\* C28 witness: a second application in a row, over two records of which one
\* was never in the file before the first application
C28_Witness ==
    /\ lastOp.op = "roundtrip" /\ lastOp.n = 2
    /\ Len(accounts) = 2 /\ accounts[2].key = <<"+", "1">>
    /\ disk = [state |-> "ok", recs |-> accounts]

----------------------------------------------------------------------------
(* Claims about closing the window (SpecClose) *)

\* C29: on window close, close_all runs to completion on the worker loop
\* before the loop is stopped: once the loop has stopped, every handle that
\* was cached has had disconnect invoked and the cache is cleared.
C29_CloseAllBeforeLoopStops ==
    ~gui.running =>
        /\ clients = EmptyCache
        /\ \A h \in gui.cached : handles[h].disconnects >= 1

----------------------------------------------------------------------------
(* Claims about the completion of a dispatch (SpecGuiLive) *)

\* C30: every dispatch that is started eventually delivers send_complete to
\* the window, which re-enables the send control and disables the stop
\* control, whatever the outcome of the individual sends.
C30_DispatchCompletes ==
    (~gui.send_btn) ~> (gui.send_btn /\ ~gui.stop_btn)

----------------------------------------------------------------------------
(* Claims about the keys of the store (SpecStore) *)

\* C31: in every reachable state each record is stored under a key k with
\* k = record.phone and normalize(k) = k, so the operations that normalize
\* their argument address the record when given record.phone; this holds for
\* the records import created under a synthetic identifier too.
C31_KeysAreNormalized ==
    \A i \in 1..Len(accounts) :
       /\ accounts[i].key = accounts[i].phone
       /\ NormalizePhone(accounts[i].key) = accounts[i].key
       /\ GetAccount(Mgr, accounts[i].phone) = <<accounts[i]>>

----------------------------------------------------------------------------
(* Claims about the handles outside the cache (SpecCache) *)

\* C32: no connection leaks past the cache: whenever login or get_client has
\* returned, every handle the manager created that is still connected is
\* held in the connection cache; hence after close_all no handle remains
\* connected unless its disconnect failed.
C32_NoConnectionOutsideCache ==
    /\ \A h \in 1..Len(handles) : handles[h].connected => h \in Cached(clients)
    /\ lastOp.op = "close_all" =>
         \A h \in 1..Len(handles) : handles[h].connected => h \in lastOp.failing

----------------------------------------------------------------------------
(* Claims about the cache after a deletion (SpecStore) *)

\* C33: every key of the connection cache is the key of a record of the
\* store, in every state between operations: after remove_account(phone)
\* returns, the cache has no handle for that phone.
C33_CacheKeysAreRecords ==
    \A k \in DOMAIN clients : \E i \in 1..Len(accounts) : accounts[i].key = k

----------------------------------------------------------------------------
(* Claims about a login that fails (SpecRelogin) *)

\* C34: a login that returns failure leaves the connection cache unchanged
\* and does not change the record's logged_in flag, profile fields, timestamp
\* or session file; its only effects on the store are the creation of the
\* record when it was absent and the update of api_url when one was supplied.
C34_FailedLoginFrame ==
    [][(lastOp'.op = "login" /\ ~lastOp'.ok) =>
         LET p == NormalizePhone(lastOp'.phone)
             url == lastOp'.url
             after == Lookup(accounts', p)
         IN /\ clients' = clients
            /\ \A i \in 1..Len(accounts) :
                 accounts[i].key # p => accounts'[i] = accounts[i]
            /\ IF HasKey(accounts, p)
               THEN /\ Len(accounts') = Len(accounts)
                    /\ after = [Lookup(accounts, p) EXCEPT
                                  !.api_url = IF url # "" THEN url ELSE @]
                    /\ disk' = disk
               ELSE /\ Len(accounts') = Len(accounts) + 1
                    /\ after = NewAccount(p, SessionFileOf(p), url)]_vars

\* C34 witness: a login with a new URL has failed on a record that is marked
\* logged in, while the cache holds a handle
C34_Witness ==
    /\ lastOp.op = "login" /\ ~lastOp.ok /\ lastOp.url = "u1"
    /\ DOMAIN clients # {}
    /\ HasKey(accounts, NormalizePhone(lastOp.phone))
    /\ Lookup(accounts, NormalizePhone(lastOp.phone)).logged_in
    /\ Lookup(accounts, NormalizePhone(lastOp.phone)).api_url = "u1"

----------------------------------------------------------------------------
(* Claims about what an import writes (SpecStore) *)

\* the keys of the records that the step created or changed
WrittenNow ==
    {accounts'[j].key :
       j \in {j \in 1..Len(accounts') :
                \A k \in 1..Len(accounts) : accounts[k] # accounts'[j]}}

\* the accounts that the outcomes of the import report as imported
ReportedNow ==
    {lastOp'.results[n][3] :
       n \in {n \in 1..Len(lastOp'.results) : lastOp'.results[n][1]}}

\* C35: after import_from_tdata returns, the records it created or overwrote
\* are exactly those of the accounts whose outcome is success: an account
\* whose outcome is a failure was neither added to the store nor modified.
C35_ImportWritesSuccessesOnly ==
    [][lastOp'.op = "import" => WrittenNow = ReportedNow]_vars

----------------------------------------------------------------------------
(* Claims about the record after a reconnect (SpecCache) *)

\* C36: after a successful reconnect by get_client (cache miss, session
\* reported authorized), the record has been refreshed as it is after a
\* successful login: its last_active is the time of the reconnect, later
\* than the one it had.
C36_ReconnectRefreshesRecord ==
    [][(/\ lastOp'.op = "get_client"
        /\ lastOp'.made # None /\ lastOp'.ret = lastOp'.made) =>
         LET p == NormalizePhone(lastOp'.phone)
         IN /\ now' > now
            /\ Lookup(accounts', p).last_active = now']_vars

----------------------------------------------------------------------------
(* Claims about the variant of the clients (SpecStore) *)

\* C37: every client constructed for a record, by get_client and by login
\* alike, is the desktop-import variant exactly when the record's session
\* file was written by import_from_tdata, and the standard variant otherwise.
C37_VariantFollowsSessionOrigin ==
    \A h \in 1..Len(handles) :
       handles[h].variant = "otele" <=> Contains(handles[h].session, "tdata_")

----------------------------------------------------------------------------
(* Claims about the events of a dispatch (SpecQueue) *)

\* the events of the dispatch in the order they were put
Events == gui.seen \o gui.queue

\* the events so far are send_progress 1, 2, ... and then, last, at most one
\* send_complete that carries as many results as there were progress events
EventsInOrder ==
    /\ \A k \in 1..Len(Events) :
          \/ Events[k] = <<"send_progress", k>>
          \/ k = Len(Events) /\ Events[k] = <<"send_complete", k - 1>>
    /\ Len(SelectSeq(Events, LAMBDA e : e[1] = "send_progress")) <= Len(gui.targets)

\* C38: for each dispatch the window receives send_progress events with
\* counts 1, 2, ..., m in increasing order without gaps, m being the number
\* of sends performed, and it receives the send_complete event of that
\* dispatch after all of them, with exactly m results: once the coroutine of
\* the dispatch has ended, its send_complete is the last event put.
C38_ProgressThenComplete ==
    /\ EventsInOrder
    /\ gui.pc \in {"done", "dead"} =>
         /\ Events # <<>>
         /\ Events[Len(Events)][1] = "send_complete"

----------------------------------------------------------------------------
(* Claims about the dispatches of the window (SpecGui) *)

\* the step is a click on the send button that starts a dispatch
DispatchStarts ==
    /\ gui'.pc = "check" /\ gui'.count = 0 /\ gui'.sendLog = <<>>
    /\ gui.pc # "check"

\* C39: at most one dispatch runs at a time: a dispatch starts only when no
\* dispatch is running or waiting for its send_complete to be processed; it
\* starts with the cancel flag set anew, and a stop request is possible only
\* between the start of a dispatch and the processing of its send_complete.
C39_OneDispatchAtATime ==
    [][/\ DispatchStarts =>
            /\ gui.pc = "idle"
            /\ gui'.sending /\ gui'.stopAt = NotStopped
       /\ (gui.sending /\ ~gui'.sending) => gui.pc # "idle"]_vars

\* C39 witness: a dispatch has started after an earlier one had constructed
\* a client for one of its sends
C39_Witness ==
    /\ gui.pc = "check" /\ gui.count = 0 /\ gui.sending
    /\ Len(handles) > 0

----------------------------------------------------------------------------
(* Claims about the logged_in flag (SpecFlag) *)

\* C40: once a record's logged_in flag is true it stays true for as long as
\* the record exists: no login (successful or failed), get_client, import,
\* send or close_all sets it back to false, also when the session is later
\* found unauthorized or a send fails.
C40_LoggedInIsSticky ==
    [][\A i \in 1..Len(accounts) : \A j \in 1..Len(accounts') :
         (accounts[i].logged_in /\ accounts'[j].key = accounts[i].key)
            => accounts'[j].logged_in]_vars

\* C40 witness: get_client has found the session of a record unauthorized,
\* and the record is marked logged in
C40_Witness ==
    /\ lastOp.op = "get_client" /\ lastOp.auth = "no"
    /\ HasKey(accounts, NormalizePhone(lastOp.phone))
    /\ Lookup(accounts, NormalizePhone(lastOp.phone)).logged_in

====
